---- MODULE Spec2Model ----
(***************************************************************************)
(* A model of the paws command-line argument parser.                       *)
(*                                                                         *)
(* The repository holds three generations of the parser:                   *)
(*   - package paws   (Parse with a validator),          specification Spec *)
(*   - apawse.go      (Parse without a validator),       SpecApawse         *)
(*   - parser.go      (two-phase parseArgs),             SpecParser         *)
(* Further specifications apply single operations to bounded inputs:       *)
(*   - SpecValidate     the validator and the assignment that wraps it     *)
(*   - SpecApi          Parse, ValidateRequired and the accessors of       *)
(*                      package paws                                       *)
(*   - SpecApawseApi    Parse and the accessors of apawse.go               *)
(*   - SpecApawseStop   apawse.go on the inputs that make Parse stop early *)
(*   - SpecConcurrent   two Parse calls of parser.go on one parser         *)
(*   - SpecRun          package paws under fairness, run to its end        *)
(*   - SpecSetup        AddCommand and AddFlags on a new parser            *)
(*   - SpecBuilder      the builder calls of flags.go on one flag          *)
(*   - SpecErrors       Error and Unwrap of errors.go on a ParseError      *)
(*   - SpecCollide      package paws on parsers whose flag names collide   *)
(*   - SpecRoundTrip    numeric values from the validator to the accessors *)
(*   - SpecRequired     concurrent ValidateRequired calls on one parser    *)
(* Tokens, flag names and values are TLA+ strings; Go indices are kept     *)
(* 0-based, so args[i] of the source is args[i + 1] here.                  *)
(***************************************************************************)
EXTENDS Integers, Sequences, FiniteSets, TLC

VARIABLES
    Commands,      \* Parser.Commands
    Flags,         \* Parser.Flags
    args,          \* the token slice handed to Parse
    impl,          \* which generation of Parse runs
    pc,            \* position inside Parse: "start", "scan", "capture", "done"
    i,             \* scan index of the loop
    cmd,           \* matched command: index into Commands, 0 is nil
    inPositional,  \* local inPositional
    positional,    \* local positional slice
    result,        \* the ParseResult under construction
    consumed,      \* parser.go: local consumed of parseArgs
    doubleDash,    \* parser.go: local doubleDash of parseArgs
    ret,           \* what Parse returned: [result, err], result Nil on error
    candidate,     \* the flag and the value handed to the validator
    assigned,      \* what the assignment of the candidate gave
    out,           \* the last call made on a ParseResult and what it returned
    calls,         \* the calls that run concurrently, each with its locals
    built,         \* the flag a chain of builder calls works on
    backing        \* the array behind the slice Parser.Flags, spare slots included

vars == <<Commands, Flags, args, impl, pc, i, cmd, inPositional, positional,
          result, consumed, doubleDash, ret, candidate, assigned, out, calls,
          built, backing>>

(***************************************************************************)
(* Bounds                                                                  *)
(***************************************************************************)
MaxArgs == 3

(***************************************************************************)
(* strings                                                                 *)
(***************************************************************************)
HasPrefix(s, prefix) ==
    /\ Len(s) >= Len(prefix)
    /\ SubSeq(s, 1, Len(prefix)) = prefix

TrimPrefix(s, prefix) ==
    IF HasPrefix(s, prefix) THEN SubSeq(s, Len(prefix) + 1, Len(s)) ELSE s

\* strings.IndexByte: 0-based index of the first c in s, -1 when absent
IndexByte(s, c) ==
    IF \E k \in 1..Len(s) : SubSeq(s, k, k) = c
    THEN (CHOOSE k \in 1..Len(s) :
             /\ SubSeq(s, k, k) = c
             /\ \A j \in 1..(k - 1) : SubSeq(s, j, j) /= c) - 1
    ELSE -1

\* the byte s[k] of the source, k 0-based
Byte(s, k) == SubSeq(s, k + 1, k + 1)

Contains(seq, x) == \E k \in 1..Len(seq) : seq[k] = x

MapSet(m, k, v) == (k :> v) @@ m

EmptyMap == [k \in {} |-> ""]

(***************************************************************************)
(* flags.go                                                                *)
(***************************************************************************)
BoolType == "BoolType"
StringType == "StringType"
IntType == "IntType"
UintType == "UintType"
FloatType == "FloatType"

\* a value of Go type any holding a bool, int, uint or string
AnyBool(b) == [type |-> "bool", b |-> b, n |-> 0, s |-> ""]
AnyInt(n) == [type |-> "int", b |-> FALSE, n |-> n, s |-> ""]
AnyUint(n) == [type |-> "uint", b |-> FALSE, n |-> n, s |-> ""]
AnyString(s) == [type |-> "string", b |-> FALSE, n |-> 0, s |-> s]
\* a float64 that holds the whole number n
AnyFloat(n) == [type |-> "float64", b |-> FALSE, n |-> n, s |-> ""]

ZeroOf(t) ==
    CASE t = BoolType -> AnyBool(FALSE)
      [] t = IntType -> AnyInt(0)
      [] t = UintType -> AnyUint(0)
      [] t = FloatType -> AnyFloat(0)
      [] OTHER -> AnyString("")

Paw(t, name, aliases) ==
    [Name |-> name, Aliases |-> aliases, Type |-> t, DefValue |-> ZeroOf(t),
     IsRequired |-> FALSE, ChoicesOpt |-> <<>>, Min |-> 0, Max |-> 0]

\* Range, on a flag of a numeric type (it panics on any other)
Range(f, min, max) == [f EXCEPT !.Min = min, !.Max = max]

Default(f, v) == [f EXCEPT !.DefValue = v]

Required(f) == [f EXCEPT !.IsRequired = TRUE]

\* Choices, on a flag of StringType (it panics on any other)
Choices(f, opts) == [f EXCEPT !.ChoicesOpt = opts]

\* what a builder call leaves: the flag, and whether the call panicked
Built(f, panicked) == [flag |-> f, panic |-> panicked]

\* Flag_Choices without the check of the type
Flag_Choices_anyType(f, opts) == Built(Choices(f, opts), FALSE)

\* Flag.Choices as a call that may panic
Flag_Choices(f, opts) ==
    IF f.Type /= StringType THEN Built(f, TRUE)
    ELSE Built(Choices(f, opts), FALSE)

\* Flag.Range as a call that may panic
Flag_Range(f, min, max) ==
    IF f.Type /= IntType /\ f.Type /= UintType /\ f.Type /= FloatType
    THEN Built(f, TRUE)
    ELSE Built(Range(f, min, max), FALSE)

(***************************************************************************)
(* errors.go                                                               *)
(***************************************************************************)
ErrUnknownFlag == "unknown flag"
ErrFlagValue == "invalid flag value"
ErrMissingValue == "flag requires value"
ErrRequiredFlag == "required flag missing"
ErrParse == "parse error"

\* a nil error
NoError == [typed |-> FALSE, Err |-> "", Flag |-> "", Value |-> "", Cause |-> ""]

ParseError(err, flag, value, cause) ==
    [typed |-> TRUE, Err |-> err, Flag |-> flag, Value |-> value, Cause |-> cause]

\* an error built by fmt.Errorf: no ParseError, only a message
Errorf(msg) ==
    [typed |-> FALSE, Err |-> "", Flag |-> "", Value |-> "", Cause |-> msg]

errorUnknownFlag(flag) == ParseError(ErrUnknownFlag, flag, "", "")
errorMissingValue(flag) == ParseError(ErrMissingValue, flag, "", "")
errorRequiredFlag(flag) == ParseError(ErrRequiredFlag, flag, "", "")

\* ParseError.Error; a nil Cause is the empty text
ParseError_Error(e) ==
    IF e.Cause /= "" THEN e.Err \o ": " \o e.Flag \o " (" \o e.Cause \o ")"
    ELSE IF e.Value /= "" THEN e.Err \o ": " \o e.Flag \o " with value " \o e.Value
    ELSE e.Err \o ": " \o e.Flag

\* ParseError.Unwrap
ParseError_Unwrap(e) == e.Err

(***************************************************************************)
(* strconv                                                                 *)
(***************************************************************************)
Digits == <<"0", "1", "2", "3", "4", "5", "6", "7", "8", "9">>

IsDigit(c) == \E k \in 1..10 : Digits[k] = c

DigitVal(c) == (CHOOSE k \in 1..10 : Digits[k] = c) - 1

RECURSIVE DecimalValue(_)
DecimalValue(s) ==
    IF s = "" THEN 0
    ELSE 10 * DecimalValue(SubSeq(s, 1, Len(s) - 1)) + DigitVal(Byte(s, Len(s) - 1))

AllDigits(s) == Len(s) > 0 /\ \A k \in 0..(Len(s) - 1) : IsDigit(Byte(s, k))

\* The widths of the integer types, scaled down: int and uint have WordBits
\* bits, as on a 32-bit build, and uint64 has twice as many. On a 64-bit
\* build uint is as wide as uint64 and the conversion between them is exact.
WordBits == 8

RECURSIVE Pow2(_)
Pow2(n) == IF n = 0 THEN 1 ELSE 2 * Pow2(n - 1)

MaxInt == Pow2(WordBits - 1) - 1

MinInt == 0 - Pow2(WordBits - 1)

MaxUint == Pow2(WordBits) - 1

MaxUint64 == Pow2(2 * WordBits) - 1

\* the conversion uint(u) of a uint64
ToUint(u) == u % Pow2(WordBits)

\* strconv.ParseUint(s, 10, 64): digits only, no sign, a value of 64 bits
ParseUint64(s) ==
    IF AllDigits(s) /\ DecimalValue(s) <= MaxUint64
    THEN [ok |-> TRUE, val |-> DecimalValue(s)]
    ELSE [ok |-> FALSE, val |-> 0]

\* ParseUint called with the bit size 64 in place of 0
ParseUint_bitSize64(s) == ParseUint64(s)

\* strconv.ParseUint(s, 10, 0): digits only, no sign, a value that fits uint
ParseUint(s) ==
    IF AllDigits(s) /\ DecimalValue(s) <= MaxUint
    THEN [ok |-> TRUE, val |-> DecimalValue(s)]
    ELSE [ok |-> FALSE, val |-> 0]

\* strconv.Atoi: an optional sign, then digits, a value that fits int
Atoi(s) ==
    LET signed == Len(s) > 0 /\ Byte(s, 0) \in {"+", "-"}
        body == IF signed THEN SubSeq(s, 2, Len(s)) ELSE s
        val == IF signed /\ Byte(s, 0) = "-" THEN 0 - DecimalValue(body)
               ELSE DecimalValue(body)
    IN  IF ~AllDigits(body) \/ val < MinInt \/ val > MaxInt
        THEN [ok |-> FALSE, val |-> 0]
        ELSE [ok |-> TRUE, val |-> val]

(***************************************************************************)
(* package paws: validator                                                 *)
(***************************************************************************)
\* isValidBoolValue looking at the length and the first byte only
isValidBoolValue_firstByte(v) ==
    IF Len(v) = 0 THEN FALSE
    ELSE CASE Len(v) = 1 ->
                  Byte(v, 0) \in {"t", "f", "T", "F", "y", "n", "Y", "N", "1", "0"}
           [] Len(v) = 2 -> Byte(v, 0) \in {"n", "N"}
           [] Len(v) = 3 -> Byte(v, 0) \in {"y", "Y"}
           [] Len(v) = 4 -> Byte(v, 0) \in {"t", "T"}
           [] Len(v) = 5 -> Byte(v, 0) \in {"f", "F"}
           [] OTHER -> FALSE

isValidBoolValue(v) ==
    IF Len(v) = 0 THEN FALSE
    ELSE IF Len(v) = 1
    THEN Byte(v, 0) \in {"t", "f", "T", "F", "y", "n", "Y", "N", "1", "0"}
    ELSE CASE Len(v) = 2 ->
                  /\ Byte(v, 0) \in {"n", "N"}
                  /\ Byte(v, 1) \in {"o", "O"}
           [] Len(v) = 3 ->
                  /\ Byte(v, 0) \in {"y", "Y"}
                  /\ Byte(v, 1) \in {"e", "E"}
                  /\ Byte(v, 2) \in {"s", "S"}
           [] Len(v) = 4 ->
                  /\ Byte(v, 0) \in {"t", "T"}
                  /\ Byte(v, 1) \in {"r", "R"}
                  /\ Byte(v, 2) \in {"u", "U"}
                  /\ Byte(v, 3) \in {"e", "E"}
           [] Len(v) = 5 ->
                  /\ Byte(v, 0) \in {"f", "F"}
                  /\ Byte(v, 1) \in {"a", "A"}
                  /\ Byte(v, 2) \in {"l", "L"}
                  /\ Byte(v, 3) \in {"s", "S"}
                  /\ Byte(v, 4) \in {"e", "E"}
           [] OTHER -> FALSE

parseBoolValue(value) ==
    IF Len(value) = 0 THEN FALSE
    ELSE IF Len(value) = 1
    THEN Byte(value, 0) \in {"t", "T", "y", "Y", "1"}
    ELSE CASE Len(value) = 3 ->
                  /\ Byte(value, 0) \in {"y", "Y"}
                  /\ Byte(value, 1) \in {"e", "E"}
                  /\ Byte(value, 2) \in {"s", "S"}
           [] Len(value) = 4 ->
                  /\ Byte(value, 0) \in {"t", "T"}
                  /\ Byte(value, 1) \in {"r", "R"}
                  /\ Byte(value, 2) \in {"u", "U"}
                  /\ Byte(value, 3) \in {"e", "E"}
           [] OTHER -> FALSE

Max0(n) == IF n < 0 THEN 0 ELSE n

\* val < uint64(n) and val > uint64(n) for a val below 2^63 and an int n:
\* the conversion of a negative n wraps to 2^64 + n, which is 2^63 at least,
\* so it lies above every such val
BelowUint64(val, n) == IF n < 0 THEN TRUE ELSE val < n

AboveUint64(val, n) == IF n < 0 THEN FALSE ELSE val > n

\* validateFlagValue with the upper bound of an Int range exclusive
validateFlagValue_exclusiveMax(flag, value) ==
    CASE flag.Type = StringType ->
             IF Len(flag.ChoicesOpt) > 0 /\ ~Contains(flag.ChoicesOpt, value)
             THEN "value not in allowed choices"
             ELSE ""
      [] flag.Type = IntType ->
             LET r == Atoi(value)
             IN  IF ~r.ok THEN "invalid integer value"
                 ELSE IF /\ (flag.Min /= 0 \/ flag.Max /= 0)
                         /\ (r.val < flag.Min \/ r.val >= flag.Max)
                 THEN "value out of range"
                 ELSE ""
      [] flag.Type = UintType ->
             LET r == ParseUint(value)
             IN  IF ~r.ok THEN "invalid unsigned integer value"
                 ELSE IF /\ (flag.Min /= 0 \/ flag.Max /= 0)
                         /\ \/ BelowUint64(r.val, Max0(flag.Min))
                            \/ AboveUint64(r.val, flag.Max)
                 THEN "value out of range"
                 ELSE ""
      [] flag.Type = BoolType ->
             IF ~isValidBoolValue(value) THEN "invalid boolean value" ELSE ""
      [] OTHER -> ""

\* the error validateFlagValue returns, as its message; "" is nil.
\* The FloatType case (strconv.ParseFloat) is not translated: no flag of the
\* modelled registries has FloatType, so the last arm is reached by no input.
validateFlagValue(flag, value) ==
    CASE flag.Type = StringType ->
             IF Len(flag.ChoicesOpt) > 0 /\ ~Contains(flag.ChoicesOpt, value)
             THEN "value not in allowed choices"
             ELSE ""
      [] flag.Type = IntType ->
             LET r == Atoi(value)
             IN  IF ~r.ok THEN "invalid integer value"
                 ELSE IF /\ (flag.Min /= 0 \/ flag.Max /= 0)
                         /\ (r.val < flag.Min \/ r.val > flag.Max)
                 THEN "value out of range"
                 ELSE ""
      [] flag.Type = UintType ->
             LET r == ParseUint(value)
             IN  IF ~r.ok THEN "invalid unsigned integer value"
                 ELSE IF /\ (flag.Min /= 0 \/ flag.Max /= 0)
                         /\ \/ BelowUint64(r.val, Max0(flag.Min))
                            \/ AboveUint64(r.val, flag.Max)
                 THEN "value out of range"
                 ELSE ""
      [] flag.Type = BoolType ->
             IF ~isValidBoolValue(value) THEN "invalid boolean value" ELSE ""
      [] OTHER -> ""

(***************************************************************************)
(* package paws: lookup                                                    *)
(***************************************************************************)
FlagMatches(flag, name) == flag.Name = name \/ Contains(flag.Aliases, name)

FirstMatch(flags, name) ==
    IF \E k \in 1..Len(flags) : FlagMatches(flags[k], name)
    THEN <<flags[CHOOSE k \in 1..Len(flags) :
                    /\ FlagMatches(flags[k], name)
                    /\ \A j \in 1..(k - 1) : ~FlagMatches(flags[j], name)]>>
    ELSE <<>>

\* the flags of every command, in registration order
RECURSIVE AllCommandFlags(_, _)
AllCommandFlags(cmds, k) ==
    IF k > Len(cmds) THEN <<>>
    ELSE cmds[k].Flags \o AllCommandFlags(cmds, k + 1)

\* findFlag searching the flags of every command, matched or not
findFlag_anyCommand(p, name, c) ==
    IF FirstMatch(p.Flags, name) /= <<>> THEN FirstMatch(p.Flags, name)
    ELSE FirstMatch(AllCommandFlags(p.Commands, 1), name)

\* Parser.findFlag: <<flag>>, or <<>> for nil; c is the command index, 0 nil
findFlag(p, name, c) ==
    IF FirstMatch(p.Flags, name) /= <<>> THEN FirstMatch(p.Flags, name)
    ELSE IF c /= 0 THEN FirstMatch(p.Commands[c].Flags, name)
    ELSE <<>>

PathMatches(path, a) ==
    /\ Len(path) <= Len(a)
    /\ \A j \in 1..Len(path) : a[j] = path[j]

RECURSIVE findCommandFrom(_, _, _, _, _)
findCommandFrom(p, a, k, bestMatch, bestLength) ==
    IF k > Len(p.Commands) THEN [cmd |-> bestMatch, n |-> bestLength]
    ELSE IF /\ PathMatches(p.Commands[k].Path, a)
            /\ Len(p.Commands[k].Path) > bestLength
    THEN findCommandFrom(p, a, k + 1, k, Len(p.Commands[k].Path))
    ELSE findCommandFrom(p, a, k + 1, bestMatch, bestLength)

\* Parser.findCommand: the matched command (index, 0 nil) and its length
findCommand(p, a) == findCommandFrom(p, a, 1, 0, 0)

(***************************************************************************)
(* package paws: Parse                                                     *)
(***************************************************************************)
\* the outcome of one parseFlag call: the count it returns, its error, and
\* result.Flags as the call leaves it
FlagOutcome(n, err, flags) == [consumed |-> n, err |-> err, Flags |-> flags]

\* parseGroup passing over a character that resolves to no flag
RECURSIVE parseGroup_skipUnknown(_, _, _, _, _)
parseGroup_skipUnknown(p, s, k, c, flags) ==
    IF k >= Len(s) THEN FlagOutcome(1, NoError, flags)
    ELSE LET f == findFlag(p, Byte(s, k), c)
         IN  IF f = <<>>
             THEN parseGroup_skipUnknown(p, s, k + 1, c, flags)
             ELSE IF f[1].Type /= BoolType
             THEN FlagOutcome(0, Errorf("non-boolean flag -" \o Byte(s, k)
                                          \o " cannot be grouped"), flags)
             ELSE parseGroup_skipUnknown(p, s, k + 1, c,
                                         MapSet(flags, f[1].Name, "true"))

\* the loop over a group of short flags, from its k-th character (0-based)
RECURSIVE parseGroup(_, _, _, _, _)
parseGroup(p, s, k, c, flags) ==
    IF k >= Len(s) THEN FlagOutcome(1, NoError, flags)
    ELSE LET f == findFlag(p, Byte(s, k), c)
         IN  IF f = <<>>
             THEN FlagOutcome(0, errorUnknownFlag(Byte(s, k)), flags)
             ELSE IF f[1].Type /= BoolType
             THEN FlagOutcome(0, Errorf("non-boolean flag -" \o Byte(s, k)
                                          \o " cannot be grouped"), flags)
             ELSE parseGroup(p, s, k + 1, c, MapSet(flags, f[1].Name, "true"))

\* assignValue storing the value without reporting any token as consumed
assignValue_consumesNone(f, value, n, flags) ==
    IF validateFlagValue(f, value) /= ""
    THEN FlagOutcome(0, ParseError(ErrFlagValue, f.Name, value,
                                   validateFlagValue(f, value)), flags)
    ELSE FlagOutcome(0, NoError, MapSet(flags, f.Name, value))

\* the value a flag is given, validated and stored
assignValue(f, value, n, flags) ==
    IF validateFlagValue(f, value) /= ""
    THEN FlagOutcome(0, ParseError(ErrFlagValue, f.Name, value,
                                   validateFlagValue(f, value)), flags)
    ELSE FlagOutcome(n, NoError, MapSet(flags, f.Name, value))

\* parseFlag taking any next token as the value, one that starts with "-" too
parseFlag_anyNext(p, arg, a, k, c, flags) ==
    LET long == HasPrefix(arg, "--")
        nameStart == IF long THEN 2 ELSE 1
        s0 == SubSeq(arg, nameStart + 1, Len(arg))
        eq == IndexByte(s0, "=")
        value == IF eq /= -1 THEN SubSeq(s0, eq + 2, Len(s0)) ELSE ""
        s == IF eq /= -1 THEN SubSeq(s0, 1, eq) ELSE s0
        f == findFlag(p, s, c)
        hasNext == k + 1 < Len(a)
    IN  IF ~long /\ Len(s0) > 1 THEN parseGroup(p, s0, 0, c, flags)
        ELSE IF f = <<>> THEN FlagOutcome(0, errorUnknownFlag(s), flags)
        ELSE IF value = ""
        THEN IF f[1].Type = BoolType
             THEN IF hasNext /\ ~HasPrefix(a[k + 2], "-")
                  THEN assignValue(f[1], a[k + 2], 2, flags)
                  ELSE FlagOutcome(1, NoError, MapSet(flags, f[1].Name, "true"))
             ELSE IF ~hasNext
                  THEN FlagOutcome(0, errorMissingValue(s), flags)
                  ELSE assignValue(f[1], a[k + 2], 2, flags)
        ELSE assignValue(f[1], value, 1, flags)

\* Parser.parseFlag of package paws; k is the index of arg in a
\* parseFlag storing a Bool flag under the name the token spells
parseFlag_typedKey(p, arg, a, k, c, flags) ==
    LET long == HasPrefix(arg, "--")
        nameStart == IF long THEN 2 ELSE 1
        s0 == SubSeq(arg, nameStart + 1, Len(arg))
        eq == IndexByte(s0, "=")
        value == IF eq /= -1 THEN SubSeq(s0, eq + 2, Len(s0)) ELSE ""
        s == IF eq /= -1 THEN SubSeq(s0, 1, eq) ELSE s0
        f == findFlag(p, s, c)
        hasNext == k + 1 < Len(a) /\ ~HasPrefix(a[k + 2], "-")
    IN  IF ~long /\ Len(s0) > 1 THEN parseGroup(p, s0, 0, c, flags)
        ELSE IF f = <<>> THEN FlagOutcome(0, errorUnknownFlag(s), flags)
        ELSE IF value = ""
        THEN IF f[1].Type = BoolType
             THEN IF hasNext
                  THEN assignValue(f[1], a[k + 2], 2, flags)
                  ELSE FlagOutcome(1, NoError, MapSet(flags, s, "true"))
             ELSE IF ~hasNext
                  THEN FlagOutcome(0, errorMissingValue(s), flags)
                  ELSE assignValue(f[1], a[k + 2], 2, flags)
        ELSE assignValue(f[1], value, 1, flags)

parseFlag(p, arg, a, k, c, flags) ==
    LET long == HasPrefix(arg, "--")
        nameStart == IF long THEN 2 ELSE 1
        s0 == SubSeq(arg, nameStart + 1, Len(arg))
        eq == IndexByte(s0, "=")
        value == IF eq /= -1 THEN SubSeq(s0, eq + 2, Len(s0)) ELSE ""
        s == IF eq /= -1 THEN SubSeq(s0, 1, eq) ELSE s0
        f == findFlag(p, s, c)
        hasNext == k + 1 < Len(a) /\ ~HasPrefix(a[k + 2], "-")
    IN  IF ~long /\ Len(s0) > 1 THEN parseGroup(p, s0, 0, c, flags)
        ELSE IF f = <<>> THEN FlagOutcome(0, errorUnknownFlag(s), flags)
        ELSE IF value = ""
        THEN IF f[1].Type = BoolType
             THEN IF hasNext
                  THEN assignValue(f[1], a[k + 2], 2, flags)
                  ELSE FlagOutcome(1, NoError, MapSet(flags, f[1].Name, "true"))
             ELSE IF ~hasNext
                  THEN FlagOutcome(0, errorMissingValue(s), flags)
                  ELSE assignValue(f[1], a[k + 2], 2, flags)
        ELSE assignValue(f[1], value, 1, flags)

RECURSIVE buildGlobalFlag(_, _, _)
\* the lookup table of Parse: name and aliases to the index of the flag
buildGlobalFlag(flags, k, table) ==
    IF k > Len(flags) THEN table
    ELSE LET names == {flags[k].Name}
                        \cup {flags[k].Aliases[j] : j \in 1..Len(flags[k].Aliases)}
         IN  buildGlobalFlag(flags, k + 1,
                 [n \in names |-> k] @@ table)

NewResult(a) ==
    [Command |-> 0, Positional |-> <<>>, Flags |-> EmptyMap,
     GlobalFlag |-> [n \in {} |-> 0], DoubleDash |-> FALSE, RawArgs |-> a]

\* the locals of Parse
Locals(ii, c, inPos, pos, res, err) ==
    [i |-> ii, cmd |-> c, inPositional |-> inPos, positional |-> pos,
     result |-> res, err |-> err, consumed |-> 0, doubleDash |-> FALSE]

\* Parse up to the scan loop
pawsStart(p, a) ==
    LET found == findCommand(p, a)
        res == [NewResult(a) EXCEPT
                   !.GlobalFlag = buildGlobalFlag(p.Flags, 1, [n \in {} |-> 0]),
                   !.Command = found.cmd]
    IN  Locals(IF found.cmd /= 0 THEN found.n ELSE 0, found.cmd, FALSE, <<>>,
               res, NoError)

\* pawsIter recording DoubleDash only from the second "--" on
pawsIter_markLate(p, a, L) ==
    LET arg == a[L.i + 1]
        r == parseFlag(p, arg, a, L.i, L.cmd, L.result.Flags)
    IN  IF arg = "--"
        THEN [L EXCEPT !.inPositional = TRUE, !.i = @ + 1,
                       !.result.DoubleDash = L.inPositional]
        ELSE IF ~L.inPositional /\ HasPrefix(arg, "-")
        THEN IF r.err /= NoError
             THEN [L EXCEPT !.err = r.err, !.result.Flags = r.Flags]
             ELSE [L EXCEPT !.i = @ + r.consumed, !.result.Flags = r.Flags]
        ELSE [L EXCEPT !.positional = Append(@, arg), !.i = @ + 1]

\* one iteration of the scan loop, for L.i < Len(a)
pawsIter(p, a, L) ==
    LET arg == a[L.i + 1]
        r == parseFlag(p, arg, a, L.i, L.cmd, L.result.Flags)
    IN  IF arg = "--"
        THEN [L EXCEPT !.inPositional = TRUE, !.i = @ + 1,
                       !.result.DoubleDash = TRUE]
        ELSE IF ~L.inPositional /\ HasPrefix(arg, "-")
        THEN IF r.err /= NoError
             THEN [L EXCEPT !.err = r.err, !.result.Flags = r.Flags]
             ELSE [L EXCEPT !.i = @ + r.consumed, !.result.Flags = r.Flags]
        ELSE [L EXCEPT !.positional = Append(@, arg), !.i = @ + 1]

\* what Parse returns once the loop is left
Returned(L) ==
    IF L.err /= NoError THEN [result |-> <<>>, err |-> L.err]
    ELSE [result |-> <<[L.result EXCEPT !.Positional = L.positional]>>,
          err |-> NoError]

RECURSIVE pawsLoop(_, _, _)
pawsLoop(p, a, L) ==
    IF L.err /= NoError \/ L.i >= Len(a) THEN Returned(L)
    ELSE pawsLoop(p, a, pawsIter(p, a, L))

\* Parser.Parse of package paws as a function of the parser and the tokens
Parse(p, a) == pawsLoop(p, a, pawsStart(p, a))

(***************************************************************************)
(* package paws: ValidateRequired and the accessors                        *)
(***************************************************************************)
\* the flags ValidateRequired walks: the global ones, then the command's
allFlags(p, r) ==
    IF r.Command /= 0 THEN p.Flags \o p.Commands[r.Command].Flags ELSE p.Flags

\* the flag at index k of flags is required, not Bool, and has no value
MissingAt(flags, k, r) ==
    /\ flags[k].IsRequired
    /\ flags[k].Type /= BoolType
    /\ \/ flags[k].Name \notin DOMAIN r.Flags
       \/ r.Flags[flags[k].Name] = ""

\* ValidateRequired that holds Bool flags to the requirement as well
ValidateRequired_boolToo(p, r) ==
    LET flags == allFlags(p, r)
        missing == {k \in 1..Len(flags) :
                       /\ flags[k].IsRequired
                       /\ \/ flags[k].Name \notin DOMAIN r.Flags
                          \/ r.Flags[flags[k].Name] = ""}
    IN  IF missing = {} THEN NoError
        ELSE errorRequiredFlag(
                 flags[CHOOSE k \in missing : \A j \in missing : k <= j].Name)

\* Parser.ValidateRequired: the error it returns, NoError for nil
ValidateRequired(p, r) ==
    LET flags == allFlags(p, r)
        missing == {k \in 1..Len(flags) : MissingAt(flags, k, r)}
    IN  IF missing = {} THEN NoError
        ELSE errorRequiredFlag(
                 flags[CHOOSE k \in missing : \A j \in missing : k <= j].Name)

\* ParseResult.findFlag: the GlobalFlag table, then the command's flags
ParseResult_findFlag(p, r, name) ==
    IF name \in DOMAIN r.GlobalFlag THEN <<p.Flags[r.GlobalFlag[name]]>>
    ELSE IF r.Command /= 0 THEN FirstMatch(p.Commands[r.Command].Flags, name)
    ELSE <<>>

\* the default an accessor falls back to; f is <<flag>>, or <<>> for nil
DefaultBool(f) ==
    IF f /= <<>> /\ f[1].DefValue.type = "bool" THEN f[1].DefValue.b ELSE FALSE

DefaultString(f) ==
    IF f /= <<>> /\ f[1].DefValue.type = "string" THEN f[1].DefValue.s ELSE ""

DefaultInt(f) ==
    IF f /= <<>> /\ f[1].DefValue.type = "int" THEN f[1].DefValue.n ELSE 0

DefaultUint(f) ==
    IF f /= <<>> /\ f[1].DefValue.type = "uint" THEN f[1].DefValue.n
    ELSE IF f /= <<>> /\ f[1].DefValue.type = "int" /\ f[1].DefValue.n >= 0
    THEN f[1].DefValue.n
    ELSE 0

\* the accessors of ParseResult; Float is left out, the model has no floats
ParseResult_Bool(p, r, n) ==
    IF n \in DOMAIN r.Flags THEN parseBoolValue(r.Flags[n])
    ELSE DefaultBool(ParseResult_findFlag(p, r, n))

ParseResult_String(p, r, n) ==
    IF n \in DOMAIN r.Flags THEN r.Flags[n]
    ELSE DefaultString(ParseResult_findFlag(p, r, n))

ParseResult_Int(p, r, n) ==
    IF n \in DOMAIN r.Flags /\ Atoi(r.Flags[n]).ok THEN Atoi(r.Flags[n]).val
    ELSE DefaultInt(ParseResult_findFlag(p, r, n))

ParseResult_Uint(p, r, n) ==
    IF n \in DOMAIN r.Flags /\ ParseUint64(r.Flags[n]).ok
    THEN ToUint(ParseUint64(r.Flags[n]).val)
    ELSE DefaultUint(ParseResult_findFlag(p, r, n))

(***************************************************************************)
(* apawse.go: Parse                                                        *)
(***************************************************************************)
\* the loop of parseShortFlag over a group, from its k-th character
RECURSIVE apawse_parseGroup(_, _, _, _, _)
apawse_parseGroup(p, s, k, c, flags) ==
    IF k >= Len(s) THEN FlagOutcome(1, NoError, flags)
    ELSE LET f == findFlag(p, Byte(s, k), c)
         IN  IF f = <<>>
             THEN FlagOutcome(0, errorUnknownFlag(Byte(s, k)), flags)
             ELSE IF f[1].Type /= BoolType
             THEN FlagOutcome(0, Errorf("non-boolean flag -" \o Byte(s, k)
                                          \o " cannot be grouped"), flags)
             ELSE apawse_parseGroup(p, s, k + 1, c,
                                    MapSet(flags, f[1].Name, "true"))

\* apawse_takeValue inspecting the token after the value as well
apawse_takeValue_peekTwo(f, name, a, k, flags) ==
    IF f = <<>> THEN FlagOutcome(0, errorUnknownFlag(name), flags)
    ELSE IF f[1].Type = BoolType
    THEN FlagOutcome(1, NoError, MapSet(flags, f[1].Name, "true"))
    ELSE IF \/ k + 1 >= Len(a)
            \/ HasPrefix(a[k + 2], "-")
            \/ k + 2 < Len(a) /\ HasPrefix(a[k + 3], "-")
    THEN FlagOutcome(0, errorMissingValue(name), flags)
    ELSE FlagOutcome(2, NoError, MapSet(flags, f[1].Name, a[k + 2]))

\* a flag given without "=": true for a Bool flag, else the next token
apawse_takeValue(f, name, a, k, flags) ==
    IF f = <<>> THEN FlagOutcome(0, errorUnknownFlag(name), flags)
    ELSE IF f[1].Type = BoolType
    THEN FlagOutcome(1, NoError, MapSet(flags, f[1].Name, "true"))
    ELSE IF k + 1 >= Len(a) \/ HasPrefix(a[k + 2], "-")
    THEN FlagOutcome(0, errorMissingValue(name), flags)
    ELSE FlagOutcome(2, NoError, MapSet(flags, f[1].Name, a[k + 2]))

\* strings.LastIndexByte: 0-based index of the last c in s, -1 when absent
LastIndexByte(s, c) ==
    IF \E k \in 1..Len(s) : SubSeq(s, k, k) = c
    THEN (CHOOSE k \in 1..Len(s) :
             /\ SubSeq(s, k, k) = c
             /\ \A j \in (k + 1)..Len(s) : SubSeq(s, j, j) /= c) - 1
    ELSE -1

\* parseLongFlag splitting the token at its last "="
apawse_parseLongFlag_lastEq(p, arg, a, k, c, flags) ==
    LET flagName == TrimPrefix(arg, "--")
        eq == LastIndexByte(flagName, "=")
        name == SubSeq(flagName, 1, eq)
        value == SubSeq(flagName, eq + 2, Len(flagName))
    IN  IF eq /= -1
        THEN IF findFlag(p, name, c) = <<>>
             THEN FlagOutcome(0, errorUnknownFlag(name), flags)
             ELSE FlagOutcome(1, NoError,
                      MapSet(flags, findFlag(p, name, c)[1].Name, value))
        ELSE apawse_takeValue(findFlag(p, flagName, c), flagName, a, k, flags)

apawse_parseLongFlag(p, arg, a, k, c, flags) ==
    LET flagName == TrimPrefix(arg, "--")
        eq == IndexByte(flagName, "=")
        name == SubSeq(flagName, 1, eq)
        value == SubSeq(flagName, eq + 2, Len(flagName))
    IN  IF eq /= -1
        THEN IF findFlag(p, name, c) = <<>>
             THEN FlagOutcome(0, errorUnknownFlag(name), flags)
             ELSE FlagOutcome(1, NoError,
                      MapSet(flags, findFlag(p, name, c)[1].Name, value))
        ELSE apawse_takeValue(findFlag(p, flagName, c), flagName, a, k, flags)

apawse_parseShortFlag(p, arg, a, k, c, flags) ==
    LET flagChars == TrimPrefix(arg, "-")
    IN  IF Len(flagChars) = 1
        THEN apawse_takeValue(findFlag(p, flagChars, c), flagChars, a, k, flags)
        ELSE apawse_parseGroup(p, flagChars, 0, c, flags)

apawse_parseFlag(p, arg, a, k, c, flags) ==
    IF HasPrefix(arg, "--") THEN apawse_parseLongFlag(p, arg, a, k, c, flags)
    ELSE apawse_parseShortFlag(p, arg, a, k, c, flags)

\* Parse up to the scan loop: GlobalFlag is made and left empty
apawseStart(p, a) ==
    LET found == findCommand(p, a)
    IN  Locals(IF found.cmd /= 0 THEN found.n ELSE 0, found.cmd, FALSE, <<>>,
               [NewResult(a) EXCEPT !.Command = found.cmd], NoError)

\* one iteration of the scan loop, for L.i < Len(a)
apawseIter(p, a, L) ==
    LET arg == a[L.i + 1]
        r == apawse_parseFlag(p, arg, a, L.i, L.cmd, L.result.Flags)
    IN  IF arg = "--"
        THEN [L EXCEPT !.inPositional = TRUE, !.i = @ + 1,
                       !.result.DoubleDash = TRUE]
        ELSE IF ~L.inPositional /\ HasPrefix(arg, "-")
        THEN IF r.err /= NoError
             THEN [L EXCEPT !.err = r.err, !.result.Flags = r.Flags]
             ELSE [L EXCEPT !.i = @ + r.consumed, !.result.Flags = r.Flags]
        ELSE [L EXCEPT !.positional = Append(@, arg), !.i = @ + 1]

RECURSIVE apawseLoop(_, _, _)
apawseLoop(p, a, L) ==
    IF L.err /= NoError \/ L.i >= Len(a) THEN Returned(L)
    ELSE apawseLoop(p, a, apawseIter(p, a, L))

\* Parser.Parse of apawse.go as a function of the parser and the tokens
apawse_Parse(p, a) == apawseLoop(p, a, apawseStart(p, a))

(***************************************************************************)
(* apawse.go: the accessors                                                *)
(***************************************************************************)
\* the first flag of flags whose Name is name: <<flag>>, or <<>>
FirstNamed(flags, name) ==
    IF \E k \in 1..Len(flags) : flags[k].Name = name
    THEN <<flags[CHOOSE k \in 1..Len(flags) :
                    /\ flags[k].Name = name
                    /\ \A j \in 1..(k - 1) : flags[j].Name /= name]>>
    ELSE <<>>

\* ParseResult.findFlag: the entries of GlobalFlag, then the command's
\* flags, by Name only
apawse_ParseResult_findFlag(p, r, name) ==
    IF \E n \in DOMAIN r.GlobalFlag : p.Flags[r.GlobalFlag[n]].Name = name
    THEN <<p.Flags[r.GlobalFlag[CHOOSE n \in DOMAIN r.GlobalFlag :
                                    p.Flags[r.GlobalFlag[n]].Name = name]]>>
    ELSE IF r.Command /= 0 THEN FirstNamed(p.Commands[r.Command].Flags, name)
    ELSE <<>>

apawse_ParseResult_Bool(p, r, n) ==
    IF n \in DOMAIN r.Flags THEN r.Flags[n] = "true"
    ELSE DefaultBool(apawse_ParseResult_findFlag(p, r, n))

apawse_ParseResult_String(p, r, n) ==
    IF n \in DOMAIN r.Flags THEN r.Flags[n]
    ELSE DefaultString(apawse_ParseResult_findFlag(p, r, n))

apawse_ParseResult_Int(p, r, n) ==
    IF n \in DOMAIN r.Flags /\ Atoi(r.Flags[n]).ok THEN Atoi(r.Flags[n]).val
    ELSE DefaultInt(apawse_ParseResult_findFlag(p, r, n))

apawse_ParseResult_Uint(p, r, n) ==
    IF n \in DOMAIN r.Flags /\ ParseUint64(r.Flags[n]).ok
    THEN ToUint(ParseUint64(r.Flags[n]).val)
    ELSE DefaultUint(apawse_ParseResult_findFlag(p, r, n))

(***************************************************************************)
(* parser.go: Parse, parseArgs, extractPositional                          *)
(***************************************************************************)
parser_parseLongFlag(p, arg, a, k, c, flags) ==
    LET flagName == TrimPrefix(arg, "--")
        eq == IndexByte(flagName, "=")
        name == SubSeq(flagName, 1, eq)
        value == SubSeq(flagName, eq + 2, Len(flagName))
        f == findFlag(p, flagName, c)
    IN  IF eq /= -1
        THEN IF findFlag(p, name, c) = <<>>
             THEN FlagOutcome(0, errorUnknownFlag(name), flags)
             ELSE FlagOutcome(0, NoError,
                      MapSet(flags, findFlag(p, name, c)[1].Name, value))
        ELSE IF f = <<>> THEN FlagOutcome(0, errorUnknownFlag(flagName), flags)
        ELSE IF f[1].Type = BoolType
        THEN FlagOutcome(0, NoError, MapSet(flags, f[1].Name, "true"))
        ELSE IF k + 1 >= Len(a) \/ HasPrefix(a[k + 2], "-")
        THEN FlagOutcome(0, errorMissingValue(flagName), flags)
        ELSE FlagOutcome(1, NoError, MapSet(flags, f[1].Name, a[k + 2]))

\* the loop of parseShortFlag from the j-th character; n is its local consumed
RECURSIVE parser_shortLoop(_, _, _, _, _, _, _, _)
parser_shortLoop(p, s, j, a, k, c, flags, n) ==
    IF j >= Len(s) THEN FlagOutcome(n, NoError, flags)
    ELSE LET f == findFlag(p, Byte(s, j), c)
         IN  IF f = <<>>
             THEN FlagOutcome(0, errorUnknownFlag(Byte(s, j)), flags)
             ELSE IF f[1].Type = BoolType
             THEN parser_shortLoop(p, s, j + 1, a, k, c,
                                   MapSet(flags, f[1].Name, "true"), n)
             ELSE IF j < Len(s) - 1
             THEN FlagOutcome(0, Errorf("flag -" \o Byte(s, j)
                                  \o " requires value and cannot be grouped"),
                              flags)
             ELSE IF k + 1 >= Len(a) \/ HasPrefix(a[k + 2], "-")
             THEN FlagOutcome(0, errorMissingValue(Byte(s, j)), flags)
             ELSE parser_shortLoop(p, s, j + 1, a, k, c,
                                   MapSet(flags, f[1].Name, a[k + 2]), 1)

parser_parseShortFlag(p, arg, a, k, c, flags) ==
    parser_shortLoop(p, TrimPrefix(arg, "-"), 0, a, k, c, flags, 0)

parser_parseFlag(p, arg, a, k, c, flags) ==
    IF HasPrefix(arg, "--") THEN parser_parseLongFlag(p, arg, a, k, c, flags)
    ELSE parser_parseShortFlag(p, arg, a, k, c, flags)

\* phase 1 of parseArgs from index k: early is its return at a "--" met
\* before any command
RECURSIVE parser_phase1(_, _, _, _)
parser_phase1(p, a, k, c) ==
    IF k >= Len(a) THEN [early |-> FALSE, cmd |-> c, consumed |-> 0]
    ELSE IF a[k + 1] = "--"
    THEN IF c = 0 THEN [early |-> TRUE, cmd |-> 0, consumed |-> k + 1]
         ELSE [early |-> FALSE, cmd |-> c, consumed |-> 0]
    ELSE IF HasPrefix(a[k + 1], "-") THEN parser_phase1(p, a, k + 1, c)
    ELSE IF c = 0 /\ findCommand(p, SubSeq(a, k + 1, Len(a))).cmd /= 0
    THEN parser_phase1(p, a, k + findCommand(p, SubSeq(a, k + 1, Len(a))).n,
                       findCommand(p, SubSeq(a, k + 1, Len(a))).cmd)
    ELSE parser_phase1(p, a, k + 1, c)

\* Parse and parseArgs up to the loop of phase 2
parserStart(p, a) ==
    LET ph == parser_phase1(p, a, 0, 0)
    IN  [Locals(0, ph.cmd, FALSE, <<>>, NewResult(a), NoError) EXCEPT
            !.consumed = ph.consumed,
            !.doubleDash = ph.early,
            !.i = IF ph.early THEN Len(a) ELSE 0]

\* one iteration of the loop of phase 2, for L.i < Len(a)
parserIter(p, a, L) ==
    LET arg == a[L.i + 1]
        r == parser_parseFlag(p, arg, a, L.i, L.cmd, L.result.Flags)
    IN  IF arg = "--"
        THEN [L EXCEPT !.doubleDash = TRUE, !.inPositional = TRUE,
                       !.consumed = L.i + 1, !.i = @ + 1]
        ELSE IF L.inPositional THEN [L EXCEPT !.i = @ + 1]
        ELSE IF HasPrefix(arg, "-")
        THEN IF r.err /= NoError
             THEN [L EXCEPT !.err = r.err, !.result.Flags = r.Flags,
                            !.consumed = 0, !.doubleDash = FALSE]
             ELSE [L EXCEPT !.i = @ + r.consumed + 1,
                            !.consumed = L.i + r.consumed + 1,
                            !.result.Flags = r.Flags]
        ELSE [L EXCEPT !.consumed = L.i + 1, !.i = @ + 1]

RECURSIVE extractFrom(_, _, _)
extractFrom(a, k, pos) ==
    IF k >= Len(a) THEN pos
    ELSE IF a[k + 1] = "--" THEN extractFrom(a, k + 1, pos)
    ELSE IF HasPrefix(a[k + 1], "-") THEN extractFrom(a, k + 1, pos)
    ELSE extractFrom(a, k + 1, Append(pos, a[k + 1]))

extractPositional(a, n) ==
    IF n >= Len(a) THEN <<>> ELSE extractFrom(a, n, <<>>)

\* the end of Parse: the command, the marker and the positional arguments
parserCapture(a, L) ==
    LET n == IF L.consumed < Len(a) /\ a[L.consumed + 1] = "--"
             THEN L.consumed + 1 ELSE L.consumed
        pos == IF L.doubleDash THEN SubSeq(a, n + 1, Len(a))
               ELSE extractPositional(a, L.consumed)
    IN  [L EXCEPT !.result.Command = L.cmd,
                  !.result.DoubleDash = L.doubleDash,
                  !.result.Positional = pos,
                  !.positional = pos,
                  !.consumed = IF L.doubleDash THEN n ELSE L.consumed]

RECURSIVE parserLoop(_, _, _)
parserLoop(p, a, L) ==
    IF L.err /= NoError THEN Returned(L)
    ELSE IF L.i >= Len(a) THEN Returned(parserCapture(a, L))
    ELSE parserLoop(p, a, parserIter(p, a, L))

\* Parser.Parse of parser.go as a function of the parser and the tokens
parser_Parse(p, a) == parserLoop(p, a, parserStart(p, a))

(***************************************************************************)
(* The registries and inputs of the model                                  *)
(***************************************************************************)
verbose == Paw(BoolType, "verbose", <<"v">>)
file == Paw(StringType, "file", <<"f">>)
count == Range(Paw(IntType, "count", <<>>), 1, 10)
quiet == Paw(BoolType, "quiet", <<"q">>)

CommandDef(path, flags) == [Path |-> path, Flags |-> flags]

\* a parser as New, AddFlags and AddCommand leave it
Registries ==
    { [Flags |-> <<verbose, file, count>>,
       Commands |-> <<CommandDef(<<"git">>, <<>>),
                      CommandDef(<<"git", "commit">>, <<quiet>>)>>],
      [Flags |-> <<verbose, file, count>>,
       Commands |-> <<CommandDef(<<"git", "commit">>, <<quiet>>),
                      CommandDef(<<"git">>, <<quiet>>),
                      CommandDef(<<"git">>, <<>>)>>] }

Tokens ==
    {"git", "commit", "--", "-", "--verbose", "-v", "--file", "-f",
     "--file=no", "--file=", "--file=5=no", "--count", "-vq", "-vf",
     "--quiet", "no", "5"}

ArgLists == UNION {[1..n -> Tokens] : n \in 0..MaxArgs}

Parser == [Commands |-> Commands, Flags |-> Flags]

(***************************************************************************)
(* The state machine: one Parse call, one action per loop iteration        *)
(***************************************************************************)
NotReturned == [result |-> <<>>, err |-> NoError]

InitWith(generation) ==
    /\ \E r \in Registries : Commands = r.Commands /\ Flags = r.Flags
    /\ args \in ArgLists
    /\ impl = generation
    /\ pc = "start"
    /\ i = 0
    /\ cmd = 0
    /\ inPositional = FALSE
    /\ positional = <<>>
    /\ result = NewResult(<<>>)
    /\ consumed = 0
    /\ doubleDash = FALSE
    /\ ret = NotReturned
    /\ candidate = <<>>
    /\ assigned = <<>>
    /\ out = <<>>
    /\ built = <<>>
    /\ backing = <<>>
    /\ calls = <<>>

CurLocals ==
    [Locals(i, cmd, inPositional, positional, result, NoError) EXCEPT
        !.consumed = consumed, !.doubleDash = doubleDash]

\* the locals after a step; a step that fails makes Parse return its error
Apply(L) ==
    /\ i' = L.i
    /\ cmd' = L.cmd
    /\ inPositional' = L.inPositional
    /\ positional' = L.positional
    /\ result' = L.result
    /\ consumed' = L.consumed
    /\ doubleDash' = L.doubleDash
    /\ IF L.err /= NoError
       THEN pc' = "done" /\ ret' = Returned(L)
       ELSE pc' = "scan" /\ ret' = ret
    /\ UNCHANGED <<Commands, Flags, args, impl, candidate, assigned, out,
                   calls, built, backing>>

\* the scan loop has a token left
Scanning(generation) ==
    /\ impl = generation
    /\ pc = "scan"
    /\ i < Len(args)

\* the scan loop is left and Parse returns its result
Return(L) ==
    /\ positional' = L.positional
    /\ result' = [L.result EXCEPT !.Positional = L.positional]
    /\ consumed' = L.consumed
    /\ ret' = Returned(L)
    /\ pc' = "done"
    /\ UNCHANGED <<Commands, Flags, args, impl, i, cmd, inPositional,
                   doubleDash, candidate, assigned, out, calls, built,
                   backing>>

(* package paws *)
Start ==
    /\ impl = "paws"
    /\ pc = "start"
    /\ Apply(pawsStart(Parser, args))

ScanDoubleDash ==
    /\ Scanning("paws")
    /\ args[i + 1] = "--"
    /\ Apply(pawsIter(Parser, args, CurLocals))

ScanFlag ==
    /\ Scanning("paws")
    /\ args[i + 1] /= "--"
    /\ ~inPositional
    /\ HasPrefix(args[i + 1], "-")
    /\ Apply(pawsIter(Parser, args, CurLocals))

ScanPositional ==
    /\ Scanning("paws")
    /\ args[i + 1] /= "--"
    /\ inPositional \/ ~HasPrefix(args[i + 1], "-")
    /\ Apply(pawsIter(Parser, args, CurLocals))

Finish ==
    /\ impl = "paws"
    /\ pc = "scan"
    /\ i >= Len(args)
    /\ Return(CurLocals)

Init == InitWith("paws")

Next == Start \/ ScanDoubleDash \/ ScanFlag \/ ScanPositional \/ Finish

Spec == Init /\ [][Next]_vars

(* package paws, run to its end *)
MaxRunArgs == 3

RunTokens == {"git", "--", "-v", "-vq", "--file", "5"}

RunArgLists == UNION {[1..n -> RunTokens] : n \in 0..MaxRunArgs}

InitRun ==
    /\ \E r \in Registries : Commands = r.Commands /\ Flags = r.Flags
    /\ args \in RunArgLists
    /\ impl = "paws"
    /\ pc = "start"
    /\ i = 0
    /\ cmd = 0
    /\ inPositional = FALSE
    /\ positional = <<>>
    /\ result = NewResult(<<>>)
    /\ consumed = 0
    /\ doubleDash = FALSE
    /\ ret = NotReturned
    /\ candidate = <<>>
    /\ assigned = <<>>
    /\ out = <<>>
    /\ built = <<>>
    /\ backing = <<>>
    /\ calls = <<>>

\* Parse is one sequential call: a step that can be taken is taken
SpecRun == InitRun /\ [][Next]_vars /\ WF_vars(Next)

(* apawse.go *)
ApawseStart ==
    /\ impl = "apawse"
    /\ pc = "start"
    /\ Apply(apawseStart(Parser, args))

ApawseScanDoubleDash ==
    /\ Scanning("apawse")
    /\ args[i + 1] = "--"
    /\ Apply(apawseIter(Parser, args, CurLocals))

ApawseScanFlag ==
    /\ Scanning("apawse")
    /\ args[i + 1] /= "--"
    /\ ~inPositional
    /\ HasPrefix(args[i + 1], "-")
    /\ Apply(apawseIter(Parser, args, CurLocals))

ApawseScanPositional ==
    /\ Scanning("apawse")
    /\ args[i + 1] /= "--"
    /\ inPositional \/ ~HasPrefix(args[i + 1], "-")
    /\ Apply(apawseIter(Parser, args, CurLocals))

ApawseFinish ==
    /\ impl = "apawse"
    /\ pc = "scan"
    /\ i >= Len(args)
    /\ Return(CurLocals)

InitApawse == InitWith("apawse")

NextApawse ==
    \/ ApawseStart
    \/ ApawseScanDoubleDash
    \/ ApawseScanFlag
    \/ ApawseScanPositional
    \/ ApawseFinish

SpecApawse == InitApawse /\ [][NextApawse]_vars

(* apawse.go on the inputs that make Parse stop early *)
MaxStopArgs == 3

StopTokens == {"git", "--", "-", "--file", "-v", "-vf", "--nosuch", "5"}

StopArgLists == UNION {[1..n -> StopTokens] : n \in 0..MaxStopArgs}

InitApawseStop ==
    /\ \E r \in Registries : Commands = r.Commands /\ Flags = r.Flags
    /\ args \in StopArgLists
    /\ impl = "apawse"
    /\ pc = "start"
    /\ i = 0
    /\ cmd = 0
    /\ inPositional = FALSE
    /\ positional = <<>>
    /\ result = NewResult(<<>>)
    /\ consumed = 0
    /\ doubleDash = FALSE
    /\ ret = NotReturned
    /\ candidate = <<>>
    /\ assigned = <<>>
    /\ out = <<>>
    /\ built = <<>>
    /\ backing = <<>>
    /\ calls = <<>>

SpecApawseStop == InitApawseStop /\ [][NextApawse]_vars

(* parser.go *)
ParserStart ==
    /\ impl = "parser"
    /\ pc = "start"
    /\ Apply(parserStart(Parser, args))

ParserScanDoubleDash ==
    /\ Scanning("parser")
    /\ args[i + 1] = "--"
    /\ Apply(parserIter(Parser, args, CurLocals))

ParserSkipPositional ==
    /\ Scanning("parser")
    /\ args[i + 1] /= "--"
    /\ inPositional
    /\ Apply(parserIter(Parser, args, CurLocals))

ParserScanFlag ==
    /\ Scanning("parser")
    /\ args[i + 1] /= "--"
    /\ ~inPositional
    /\ HasPrefix(args[i + 1], "-")
    /\ Apply(parserIter(Parser, args, CurLocals))

ParserScanWord ==
    /\ Scanning("parser")
    /\ args[i + 1] /= "--"
    /\ ~inPositional
    /\ ~HasPrefix(args[i + 1], "-")
    /\ Apply(parserIter(Parser, args, CurLocals))

ParserFinish ==
    /\ impl = "parser"
    /\ pc = "scan"
    /\ i >= Len(args)
    /\ Return(parserCapture(args, CurLocals))

InitParser == InitWith("parser")

NextParser ==
    \/ ParserStart
    \/ ParserScanDoubleDash
    \/ ParserSkipPositional
    \/ ParserScanFlag
    \/ ParserScanWord
    \/ ParserFinish

SpecParser == InitParser /\ [][NextParser]_vars

(***************************************************************************)
(* The validator on its own: one candidate value is assigned to one flag   *)
(***************************************************************************)
MaxNum == 10

MaxLen == 3

\* the decimal text of a number, as the caller of the program types it
RECURSIVE NatText(_)
NatText(n) ==
    IF n < 10 THEN Digits[n + 1]
    ELSE NatText(n \div 10) \o Digits[(n % 10) + 1]

IntText(n) == IF n < 0 THEN "-" \o NatText(0 - n) ELSE NatText(n)

NumericTexts ==
    {IntText(n) : n \in (0 - MaxNum - 1)..(MaxNum + 1)}
        \cup {"", "+", "-", "+5", "-0", "007", "5x", "x", "1.5", " 5", "0x5"}

BoolBytes ==
    {"t", "T", "r", "u", "e", "E", "y", "n", "N", "o", "s", "1", "0", "f",
     "a", "l"}

\* the texts of at most n bytes of BoolBytes
RECURSIVE TextsUpTo(_)
TextsUpTo(n) ==
    IF n = 0 THEN {""}
    ELSE TextsUpTo(n - 1)
            \cup {t \o b : t \in TextsUpTo(n - 1), b \in BoolBytes}

BoolTexts ==
    TextsUpTo(MaxLen)
        \cup {a \o b \o c \o d :
                 a \in {"t", "T"}, b \in {"r", "R"}, c \in {"u", "U"},
                 d \in {"e", "E"}}
        \cup {a \o b \o c \o d \o e :
                 a \in {"f", "F"}, b \in {"a", "A"}, c \in {"l", "L"},
                 d \in {"s", "S"}, e \in {"e", "E"}}
        \cup {"trua", "ture", "yess", "nope", "fals", "falsy", "truee",
              "falsee", "false ", "on", "off", "2", "-1"}

IntFlags ==
    {Range(Paw(IntType, "count", <<"c">>), lo, hi) :
        lo \in (0 - MaxNum)..MaxNum, hi \in (0 - MaxNum)..MaxNum}

UintFlags ==
    {Range(Paw(UintType, "size", <<"s">>), lo, hi) :
        lo \in (0 - MaxNum)..MaxNum, hi \in (0 - MaxNum)..MaxNum}

StringFlags ==
    {Paw(StringType, "mode", <<"m">>),
     Choices(Paw(StringType, "mode", <<"m">>), <<"fast", "slow">>)}

Candidates ==
    [flag : IntFlags \cup UintFlags, value : NumericTexts]
        \cup [flag : {Paw(BoolType, "flag", <<>>)}, value : BoolTexts]
        \cup [flag : StringFlags, value : {"fast", "slow", "medium", "", "FAST"}]

InitValidate ==
    /\ Commands = <<>>
    /\ Flags = <<>>
    /\ args = <<>>
    /\ impl = "validate"
    /\ pc = "start"
    /\ i = 0
    /\ cmd = 0
    /\ inPositional = FALSE
    /\ positional = <<>>
    /\ result = NewResult(<<>>)
    /\ consumed = 0
    /\ doubleDash = FALSE
    /\ ret = NotReturned
    /\ candidate \in Candidates
    /\ assigned = <<>>
    /\ out = <<>>
    /\ built = <<>>
    /\ backing = <<>>
    /\ calls = <<>>

\* parseFlag validates the candidate and stores it, or wraps the rejection
Assign ==
    /\ impl = "validate"
    /\ pc = "start"
    /\ assigned' = <<assignValue(candidate.flag, candidate.value, 1, result.Flags)>>
    /\ pc' = "done"
    /\ UNCHANGED <<Commands, Flags, args, impl, i, cmd, inPositional,
                   positional, result, consumed, doubleDash, ret, candidate,
                   out, calls, built, backing>>

NextValidate == Assign

SpecValidate == InitValidate /\ [][NextValidate]_vars

(***************************************************************************)
(* Parse, then ValidateRequired and the accessors on its result            *)
(***************************************************************************)
MaxApiArgs == 2

size == Default(Paw(UintType, "size", <<"s">>), AnyUint(100))
level == Required(Default(Paw(IntType, "level", <<"l">>), AnyInt(42)))
mode == Required(Paw(StringType, "mode", <<"m">>))
target == Required(Paw(StringType, "target", <<"t">>))
loud == Default(Paw(BoolType, "loud", <<>>), AnyBool(TRUE))

\* parsers with required flags and defaults
ApiRegistries ==
    { [Flags |-> <<Required(verbose), size, target>>,
       Commands |-> <<CommandDef(<<"git">>, <<level, loud>>),
                      CommandDef(<<"run">>, <<mode>>)>>],
      [Flags |-> <<mode, target>>,
       Commands |-> <<CommandDef(<<"git">>, <<>>)>>] }

ApiTokens ==
    {"git", "run", "--target", "x", "", "--target=x", "--level=7", "--level",
     "7", "--verbose", "--verbose=yes", "--verbose=NO", "yes", "--size=5",
     "--mode=fast", "--loud=f"}

ApiArgLists == UNION {[1..n -> ApiTokens] : n \in 0..MaxApiArgs}

\* the names the accessors are called with
ApiNames == {"verbose", "v", "size", "target", "level", "loud", "mode", "nosuch"}

InitApi(generation) ==
    /\ \E r \in ApiRegistries : Commands = r.Commands /\ Flags = r.Flags
    /\ args \in ApiArgLists
    /\ impl = generation
    /\ pc = "start"
    /\ i = 0
    /\ cmd = 0
    /\ inPositional = FALSE
    /\ positional = <<>>
    /\ result = NewResult(<<>>)
    /\ consumed = 0
    /\ doubleDash = FALSE
    /\ ret = NotReturned
    /\ candidate = <<>>
    /\ assigned = <<>>
    /\ out = <<>>
    /\ built = <<>>
    /\ backing = <<>>
    /\ calls = <<>>

\* a whole Parse call of package paws
ApiParse ==
    /\ impl = "paws"
    /\ pc = "start"
    /\ ret' = Parse(Parser, args)
    /\ result' = IF ret'.err = NoError THEN ret'.result[1] ELSE result
    /\ cmd' = result'.Command
    /\ positional' = result'.Positional
    /\ pc' = "done"
    /\ UNCHANGED <<Commands, Flags, args, impl, i, inPositional, consumed,
                   doubleDash, candidate, assigned, out, calls, built,
                   backing>>

\* a call on the result Parse returned: its name, argument and return value
Called(call, n, val, err) ==
    /\ pc = "done"
    /\ ret.err = NoError
    /\ out' = <<[call |-> call, name |-> n, val |-> val, err |-> err]>>
    /\ UNCHANGED <<Commands, Flags, args, impl, pc, i, cmd, inPositional,
                   positional, result, consumed, doubleDash, ret, candidate,
                   assigned, calls, built, backing>>

CallValidateRequired ==
    /\ impl = "paws"
    /\ Called("ValidateRequired", "", AnyBool(FALSE),
              ValidateRequired(Parser, result))

CallBool ==
    /\ impl = "paws"
    /\ \E n \in ApiNames :
          Called("Bool", n, AnyBool(ParseResult_Bool(Parser, result, n)), NoError)

CallString ==
    /\ impl = "paws"
    /\ \E n \in ApiNames :
          Called("String", n, AnyString(ParseResult_String(Parser, result, n)),
                 NoError)

CallInt ==
    /\ impl = "paws"
    /\ \E n \in ApiNames :
          Called("Int", n, AnyInt(ParseResult_Int(Parser, result, n)), NoError)

CallUint ==
    /\ impl = "paws"
    /\ \E n \in ApiNames :
          Called("Uint", n, AnyUint(ParseResult_Uint(Parser, result, n)), NoError)

NextApi ==
    \/ ApiParse
    \/ CallValidateRequired
    \/ CallBool
    \/ CallString
    \/ CallInt
    \/ CallUint

SpecApi == InitApi("paws") /\ [][NextApi]_vars

\* a whole Parse call of apawse.go
ApawseApiParse ==
    /\ impl = "apawse"
    /\ pc = "start"
    /\ ret' = apawse_Parse(Parser, args)
    /\ result' = IF ret'.err = NoError THEN ret'.result[1] ELSE result
    /\ cmd' = result'.Command
    /\ positional' = result'.Positional
    /\ pc' = "done"
    /\ UNCHANGED <<Commands, Flags, args, impl, i, inPositional, consumed,
                   doubleDash, candidate, assigned, out, calls, built,
                   backing>>

ApawseCallBool ==
    /\ impl = "apawse"
    /\ \E n \in ApiNames :
          Called("Bool", n, AnyBool(apawse_ParseResult_Bool(Parser, result, n)),
                 NoError)

ApawseCallString ==
    /\ impl = "apawse"
    /\ \E n \in ApiNames :
          Called("String", n,
                 AnyString(apawse_ParseResult_String(Parser, result, n)), NoError)

ApawseCallInt ==
    /\ impl = "apawse"
    /\ \E n \in ApiNames :
          Called("Int", n, AnyInt(apawse_ParseResult_Int(Parser, result, n)),
                 NoError)

ApawseCallUint ==
    /\ impl = "apawse"
    /\ \E n \in ApiNames :
          Called("Uint", n, AnyUint(apawse_ParseResult_Uint(Parser, result, n)),
                 NoError)

NextApawseApi ==
    \/ ApawseApiParse
    \/ ApawseCallBool
    \/ ApawseCallString
    \/ ApawseCallInt
    \/ ApawseCallUint

SpecApawseApi == InitApi("apawse") /\ [][NextApawseApi]_vars

(***************************************************************************)
(* errors.go: Error and Unwrap on a ParseError                             *)
(***************************************************************************)
\* the errors the methods are called on
ParseErrors ==
    {ParseError(kind, flag, value, cause) :
        kind \in {ErrUnknownFlag, ErrFlagValue, ErrMissingValue, ErrRequiredFlag,
                  ErrParse},
        flag \in {"verbose", "count", ""},
        value \in {"", "abc"},
        cause \in {"", "invalid format"}}

InitErrors ==
    /\ \E e \in ParseErrors : ret = [result |-> <<>>, err |-> e]
    /\ Commands = <<>>
    /\ Flags = <<>>
    /\ args = <<>>
    /\ impl = "errors"
    /\ pc = "done"
    /\ i = 0
    /\ cmd = 0
    /\ inPositional = FALSE
    /\ positional = <<>>
    /\ result = NewResult(<<>>)
    /\ consumed = 0
    /\ doubleDash = FALSE
    /\ candidate = <<>>
    /\ assigned = <<>>
    /\ out = <<>>
    /\ calls = <<>>
    /\ built = <<>>
    /\ backing = <<>>

\* a method called on the error: its name and the text it returned
ErrorCalled(call, text) ==
    /\ impl = "errors"
    /\ out' = <<[call |-> call, name |-> "", val |-> AnyString(text),
                 err |-> NoError]>>
    /\ UNCHANGED <<Commands, Flags, args, impl, pc, i, cmd, inPositional,
                   positional, result, consumed, doubleDash, ret, candidate,
                   assigned, calls, built, backing>>

CallError == ErrorCalled("Error", ParseError_Error(ret.err))

CallUnwrap == ErrorCalled("Unwrap", ParseError_Unwrap(ret.err))

NextErrors == CallError \/ CallUnwrap

SpecErrors == InitErrors /\ [][NextErrors]_vars

(***************************************************************************)
(* Parse and the accessors on parsers whose global flags collide           *)
(***************************************************************************)
\* two global flags with one name; an alias that is the name of a later
\* flag; one alias on two flags
CollideRegistries ==
    { [Flags |-> <<Default(Paw(IntType, "level", <<"l">>), AnyInt(1)),
                   Default(Paw(IntType, "level", <<>>), AnyInt(2))>>,
       Commands |-> <<CommandDef(<<"git">>, <<>>)>>],
      [Flags |-> <<Default(Paw(StringType, "mode", <<"v">>), AnyString("first")),
                   Default(Paw(StringType, "v", <<>>), AnyString("second"))>>,
       Commands |-> <<CommandDef(<<"git">>, <<>>)>>],
      [Flags |-> <<Default(Paw(UintType, "size", <<"v">>), AnyUint(1)),
                   Default(Paw(UintType, "target", <<"v">>), AnyUint(2))>>,
       Commands |-> <<CommandDef(<<"git">>, <<>>)>>] }

CollideTokens == {"git", "--level=7", "--v=5", "-v", "5", "--mode=x", "--size=3"}

CollideArgLists == UNION {[1..n -> CollideTokens] : n \in 0..MaxApiArgs}

InitCollide ==
    /\ \E r \in CollideRegistries : Commands = r.Commands /\ Flags = r.Flags
    /\ args \in CollideArgLists
    /\ impl = "paws"
    /\ pc = "start"
    /\ i = 0
    /\ cmd = 0
    /\ inPositional = FALSE
    /\ positional = <<>>
    /\ result = NewResult(<<>>)
    /\ consumed = 0
    /\ doubleDash = FALSE
    /\ ret = NotReturned
    /\ candidate = <<>>
    /\ assigned = <<>>
    /\ out = <<>>
    /\ calls = <<>>
    /\ built = <<>>
    /\ backing = <<>>

SpecCollide == InitCollide /\ [][NextApi]_vars

(***************************************************************************)
(* A numeric value on its way through Parse and back through an accessor   *)
(***************************************************************************)
\* the flag the value is given to
RoundFlags ==
    {Paw(IntType, "level", <<"l">>),
     Range(Paw(IntType, "level", <<"l">>), -128, 127),
     Paw(UintType, "size", <<"s">>),
     Range(Paw(UintType, "size", <<"s">>), 1, 300)}

\* the value as the caller types it, around the ends of int, uint and uint64
RoundTexts ==
    {"0", "5", "007", "+5", "-5", "-0", "127", "128", "-128", "-129", "255",
     "256", "257", "300", "65535", "65536", "5x", ""}

\* the two ways of giving a flag its value
RoundArgLists ==
    {<<"--" \o f.Name \o "=" \o v>> : f \in RoundFlags, v \in RoundTexts}
        \cup {<<"--" \o f.Name, v>> : f \in RoundFlags, v \in RoundTexts}

InitRoundTrip ==
    /\ \E f \in RoundFlags : Flags = <<f>>
    /\ Commands = <<>>
    /\ args \in RoundArgLists
    /\ impl = "paws"
    /\ pc = "start"
    /\ i = 0
    /\ cmd = 0
    /\ inPositional = FALSE
    /\ positional = <<>>
    /\ result = NewResult(<<>>)
    /\ consumed = 0
    /\ doubleDash = FALSE
    /\ ret = NotReturned
    /\ candidate = <<>>
    /\ assigned = <<>>
    /\ out = <<>>
    /\ calls = <<>>
    /\ built = <<>>
    /\ backing = <<>>

NextRoundTrip == ApiParse \/ CallInt \/ CallUint

SpecRoundTrip == InitRoundTrip /\ [][NextRoundTrip]_vars

(***************************************************************************)
(* parser.go: Parse calls that run concurrently on one parser              *)
(***************************************************************************)
MaxConcArgs == 1

NumCalls == 2

ConcTokens == {"git", "--", "--file", "--file=5"}

ConcArgLists == UNION {[1..n -> ConcTokens] : n \in 0..MaxConcArgs}

\* a Parse call that has not started: its input, its position, its locals
NewCall(a) ==
    [args |-> a, pc |-> "start",
     L |-> Locals(0, 0, FALSE, <<>>, NewResult(a), NoError),
     ret |-> NotReturned]

InitConcurrent ==
    /\ \E r \in Registries : Commands = r.Commands /\ Flags = r.Flags
    /\ calls \in [1..NumCalls -> {NewCall(a) : a \in ConcArgLists}]
    /\ args = <<>>
    /\ impl = "parser"
    /\ pc = "concurrent"
    /\ i = 0
    /\ cmd = 0
    /\ inPositional = FALSE
    /\ positional = <<>>
    /\ result = NewResult(<<>>)
    /\ consumed = 0
    /\ doubleDash = FALSE
    /\ ret = NotReturned
    /\ candidate = <<>>
    /\ assigned = <<>>
    /\ out = <<>>
    /\ built = <<>>
    /\ backing = <<>>

\* call c goes on to the locals L; it returns when L holds an error. The
\* parser and the inputs are read, never written
ConcApply(c, L) ==
    /\ calls' = [calls EXCEPT
                    ![c].L = L,
                    ![c].pc = IF L.err /= NoError THEN "done" ELSE "scan",
                    ![c].ret = IF L.err /= NoError THEN Returned(L) ELSE @]
    /\ UNCHANGED <<Commands, Flags, args, impl, pc, i, cmd, inPositional,
                   positional, result, consumed, doubleDash, ret, candidate,
                   assigned, out, built, backing>>

\* ConcStart moving the matched command's flags into the global flags
ConcStart_mergesFlags(c) ==
    /\ calls[c].pc = "start"
    /\ calls' = [calls EXCEPT
                    ![c].L = parserStart(Parser, calls[c].args),
                    ![c].pc = "scan"]
    /\ Flags' = IF parserStart(Parser, calls[c].args).cmd /= 0
                THEN Flags \o Commands[parserStart(Parser, calls[c].args).cmd].Flags
                ELSE Flags
    /\ UNCHANGED <<Commands, args, impl, pc, i, cmd, inPositional, positional,
                   result, consumed, doubleDash, ret, candidate, assigned,
                   out, built, backing>>

\* call c enters Parse and runs phase 1 of parseArgs
ConcStart(c) ==
    /\ calls[c].pc = "start"
    /\ ConcApply(c, parserStart(Parser, calls[c].args))

\* call c runs one iteration of the loop of phase 2
ConcScan(c) ==
    /\ calls[c].pc = "scan"
    /\ calls[c].L.i < Len(calls[c].args)
    /\ ConcApply(c, parserIter(Parser, calls[c].args, calls[c].L))

\* call c leaves the loop and returns its result
ConcFinish(c) ==
    /\ calls[c].pc = "scan"
    /\ calls[c].L.i >= Len(calls[c].args)
    /\ calls' = [calls EXCEPT
                    ![c].L = parserCapture(calls[c].args, calls[c].L),
                    ![c].pc = "done",
                    ![c].ret = Returned(parserCapture(calls[c].args, calls[c].L))]
    /\ UNCHANGED <<Commands, Flags, args, impl, pc, i, cmd, inPositional,
                   positional, result, consumed, doubleDash, ret, candidate,
                   assigned, out, built, backing>>

NextConcurrent ==
    \E c \in 1..NumCalls : ConcStart(c) \/ ConcScan(c) \/ ConcFinish(c)

SpecConcurrent == InitConcurrent /\ [][NextConcurrent]_vars

(***************************************************************************)
(* The setup phase: AddCommand and AddFlags on a new parser                *)
(***************************************************************************)
MaxCommands == 2

MaxFlags == 2

MaxSpare == 1

\* the paths and the flag lists AddCommand is called with
SetupPaths == {<<>>, <<"git">>, <<"git", "commit">>, <<"run">>}

SetupCommandFlags == {<<>>, <<quiet>>}

\* the flags one AddFlags call is given
SetupFlagLists == {<<verbose>>, <<file>>, <<verbose, file>>}

\* a slot of a []*Flag array that holds nil
NilFlag ==
    [Name |-> "", Aliases |-> <<>>, Type |-> "nil", DefValue |-> AnyString(""),
     IsRequired |-> FALSE, ChoicesOpt |-> <<>>, Min |-> 0, Max |-> 0]

\* the arrays append(slice, more...) may leave behind its result, where array
\* is the one behind slice: the same array, written in place, when it has
\* room; else a new one that holds the result and up to MaxSpare nil slots
AppendArrays(array, slice, more) ==
    IF Len(slice) + Len(more) <= Len(array)
    THEN {[k \in 1..Len(array) |->
              IF k > Len(slice) /\ k <= Len(slice) + Len(more)
              THEN more[k - Len(slice)]
              ELSE array[k]]}
    ELSE {slice \o more \o [k \in 1..spare |-> NilFlag] : spare \in 0..MaxSpare}

\* New()
InitSetup ==
    /\ Commands = <<>>
    /\ Flags = <<>>
    /\ backing = <<>>
    /\ args = <<>>
    /\ impl = "setup"
    /\ pc = "setup"
    /\ i = 0
    /\ cmd = 0
    /\ inPositional = FALSE
    /\ positional = <<>>
    /\ result = NewResult(<<>>)
    /\ consumed = 0
    /\ doubleDash = FALSE
    /\ ret = NotReturned
    /\ candidate = <<>>
    /\ assigned = <<>>
    /\ out = <<>>
    /\ calls = <<>>
    /\ built = <<>>

\* AddCommand(path, flags)
AddCommand ==
    /\ pc = "setup"
    /\ Len(Commands) < MaxCommands
    /\ \E path \in SetupPaths, flags \in SetupCommandFlags :
          Commands' = Append(Commands, CommandDef(path, flags))
    /\ UNCHANGED <<Flags, args, impl, pc, i, cmd, inPositional, positional,
                   result, consumed, doubleDash, ret, candidate, assigned,
                   out, calls, built, backing>>

\* AddFlags(flags...)
AddFlags ==
    /\ pc = "setup"
    /\ \E flags \in SetupFlagLists :
          /\ Len(Flags) + Len(flags) <= MaxFlags
          /\ Flags' = Flags \o flags
          /\ backing' \in AppendArrays(backing, Flags, flags)
    /\ UNCHANGED <<Commands, args, impl, pc, i, cmd, inPositional, positional,
                   result, consumed, doubleDash, ret, candidate, assigned,
                   out, calls, built>>

NextSetup == AddCommand \/ AddFlags

SpecSetup == InitSetup /\ [][NextSetup]_vars

(***************************************************************************)
(* apawse.go, parser.go: ValidateRequired calls that run concurrently      *)
(***************************************************************************)
NumValidators == 2

\* the global flags, and two commands with a required flag each
RequiredFlagLists == {<<target>>, <<verbose, target>>}

RequiredCommands ==
    <<CommandDef(<<"git">>, <<level>>), CommandDef(<<"run">>, <<mode>>)>>

\* the inputs whose results the calls are given
RequiredArgLists ==
    {<<>>, <<"--target=x">>, <<"git">>, <<"git", "--target=x">>,
     <<"git", "--target=x", "--level=7">>, <<"run">>,
     <<"run", "--target=x">>, <<"run", "--target=x", "--mode=fast">>}

\* the results Parse returns for them on the parser p
RequiredResults(p) ==
    {apawse_Parse(p, a).result[1] :
        a \in {b \in RequiredArgLists : apawse_Parse(p, b).err = NoError}}

\* a ValidateRequired call that has not started. allFlags is the private
\* array when own, else the first len slots of the array behind p.Flags; w
\* counts the elements append has written, k the flags the loop has examined
NewValidator(r) ==
    [result |-> r, pc |-> "start", own |-> FALSE, array |-> <<>>, len |-> 0,
     w |-> 0, k |-> 0, examined |-> <<>>, err |-> NoError]

\* p.Flags as the AddFlags calls left it: its array may have spare slots
InitRequired ==
    /\ Flags \in RequiredFlagLists
    /\ Commands = RequiredCommands
    /\ \E spare \in 0..MaxSpare :
          backing = Flags \o [k \in 1..spare |-> NilFlag]
    /\ calls \in [1..NumValidators ->
                     {NewValidator(r) :
                         r \in RequiredResults([Commands |-> RequiredCommands,
                                                Flags |-> Flags])}]
    /\ args = <<>>
    /\ impl = "required"
    /\ pc = "concurrent"
    /\ i = 0
    /\ cmd = 0
    /\ inPositional = FALSE
    /\ positional = <<>>
    /\ result = NewResult(<<>>)
    /\ consumed = 0
    /\ doubleDash = FALSE
    /\ ret = NotReturned
    /\ candidate = <<>>
    /\ assigned = <<>>
    /\ out = <<>>
    /\ built = <<>>

\* what a step of a call leaves alone besides calls and the array
RequiredFrame ==
    UNCHANGED <<Commands, Flags, args, impl, pc, i, cmd, inPositional,
                positional, result, consumed, doubleDash, ret, candidate,
                assigned, out, built>>

\* the flags of the command of call c's result
CommandFlagsOf(c) == Commands[calls[c].result.Command].Flags

\* allFlags := p.Flags
RequiredStart(c) ==
    /\ impl = "required"
    /\ calls[c].pc = "start"
    /\ calls' = [calls EXCEPT
                    ![c].len = Len(Flags),
                    ![c].pc = IF calls[c].result.Command /= 0 THEN "append"
                              ELSE "loop"]
    /\ UNCHANGED backing
    /\ RequiredFrame

\* allFlags = append(allFlags, result.Command.Flags...): with room in the
\* array behind p.Flags the elements are written there, one per step; without
\* room they go with a copy of p.Flags into an array of the call's own
RequiredAppend(c) ==
    /\ impl = "required"
    /\ calls[c].pc = "append"
    /\ IF Len(Flags) + Len(CommandFlagsOf(c)) > Len(backing)
       THEN /\ calls' = [calls EXCEPT
                            ![c].own = TRUE,
                            ![c].array = Flags \o CommandFlagsOf(c),
                            ![c].len = Len(Flags) + Len(CommandFlagsOf(c)),
                            ![c].pc = "loop"]
            /\ UNCHANGED backing
       ELSE IF calls[c].w < Len(CommandFlagsOf(c))
       THEN /\ backing' = [backing EXCEPT
                              ![Len(Flags) + calls[c].w + 1] =
                                  CommandFlagsOf(c)[calls[c].w + 1]]
            /\ calls' = [calls EXCEPT ![c].w = @ + 1]
       ELSE /\ calls' = [calls EXCEPT
                            ![c].len = Len(Flags) + Len(CommandFlagsOf(c)),
                            ![c].pc = "loop"]
            /\ UNCHANGED backing
    /\ RequiredFrame

\* the k-th element of call c's allFlags (0-based)
AllFlagsAt(c, k) ==
    IF calls[c].own THEN calls[c].array[k + 1] ELSE backing[k + 1]

\* one iteration of the loop over allFlags
RequiredExamine(c) ==
    /\ impl = "required"
    /\ calls[c].pc = "loop"
    /\ calls[c].k < calls[c].len
    /\ LET flag == AllFlagsAt(c, calls[c].k)
       IN  calls' = [calls EXCEPT
                       ![c].examined = Append(@, flag.Name),
                       ![c].k = @ + 1,
                       ![c].err = IF MissingAt(<<flag>>, 1, calls[c].result)
                                  THEN errorRequiredFlag(flag.Name)
                                  ELSE NoError,
                       ![c].pc = IF MissingAt(<<flag>>, 1, calls[c].result)
                                 THEN "done"
                                 ELSE "loop"]
    /\ UNCHANGED backing
    /\ RequiredFrame

\* return nil
RequiredReturn(c) ==
    /\ impl = "required"
    /\ calls[c].pc = "loop"
    /\ calls[c].k >= calls[c].len
    /\ calls' = [calls EXCEPT ![c].pc = "done"]
    /\ UNCHANGED backing
    /\ RequiredFrame

NextRequired ==
    \E c \in 1..NumValidators :
        \/ RequiredStart(c)
        \/ RequiredAppend(c)
        \/ RequiredExamine(c)
        \/ RequiredReturn(c)

SpecRequired == InitRequired /\ [][NextRequired]_vars

(***************************************************************************)
(* flags.go: a chain of builder calls on one flag                          *)
(***************************************************************************)
FlagTypes == {BoolType, StringType, IntType, UintType, FloatType}

\* the arguments the builder calls are given
BuilderDefaults == {AnyBool(TRUE), AnyInt(7), AnyString("x")}

BuilderChoices == {<<>>, <<"fast", "slow">>}

BuilderEnds == {-1, 0, 5}

\* Paw[T](name, aliases...)
InitBuilder ==
    /\ \E t \in FlagTypes : built = <<Paw(t, "flag", <<"f">>)>>
    /\ Commands = <<>>
    /\ Flags = <<>>
    /\ backing = <<>>
    /\ args = <<>>
    /\ impl = "flags"
    /\ pc = "build"
    /\ i = 0
    /\ cmd = 0
    /\ inPositional = FALSE
    /\ positional = <<>>
    /\ result = NewResult(<<>>)
    /\ consumed = 0
    /\ doubleDash = FALSE
    /\ ret = NotReturned
    /\ candidate = <<>>
    /\ assigned = <<>>
    /\ out = <<>>
    /\ calls = <<>>

\* a builder call that left b: the flag it left, its name, whether it panicked
BuilderCalled(call, b) ==
    /\ impl = "flags"
    /\ pc = "build"
    /\ built' = <<b.flag>>
    /\ out' = <<[call |-> call, name |-> built[1].Name, val |-> AnyBool(b.panic),
                 err |-> NoError]>>
    /\ UNCHANGED <<Commands, Flags, args, impl, pc, i, cmd, inPositional,
                   positional, result, consumed, doubleDash, ret, candidate,
                   assigned, calls, backing>>

CallDefault ==
    \E v \in BuilderDefaults : BuilderCalled("Default", Built(Default(built[1], v), FALSE))

CallRequired == BuilderCalled("Required", Built(Required(built[1]), FALSE))

CallChoices ==
    \E opts \in BuilderChoices : BuilderCalled("Choices", Flag_Choices(built[1], opts))

CallRange ==
    \E min \in BuilderEnds, max \in BuilderEnds :
        BuilderCalled("Range", Flag_Range(built[1], min, max))

NextBuilder == CallDefault \/ CallRequired \/ CallChoices \/ CallRange

SpecBuilder == InitBuilder /\ [][NextBuilder]_vars

(***************************************************************************)
(* Properties                                                              *)
(***************************************************************************)
Done == pc = "done"

Succeeded == pc = "done" /\ ret.err = NoError

Failed == pc = "done" /\ ret.err /= NoError

\* path is, token for token, the beginning of a
PrefixOf(path, a) == Len(path) <= Len(a) /\ SubSeq(a, 1, Len(path)) = path

Injective(f, n) == \A x, y \in 1..n : f[x] = f[y] => x = y

\* the sequences that hold the elements of seq in another order
Reorderings(seq) ==
    {[k \in 1..Len(seq) |-> seq[f[k]]] :
        f \in {g \in [1..Len(seq) -> 1..Len(seq)] : Injective(g, Len(seq))}}

\* the command definition findCommand picks: <<definition>>, or <<>> for nil
ChosenCommand(cmds, a) ==
    LET c == findCommand([Commands |-> cmds, Flags |-> Flags], a).cmd
    IN  IF c = 0 THEN <<>> ELSE <<cmds[c]>>

\* C1: the command Parse returns is a registered command whose path is a
\* prefix of the input, no registered command with a longer path is one too,
\* and the same command is returned whatever the order of registration.
C1_LongestPrefixAnyOrder ==
    pc /= "start" =>
        /\ cmd /= 0 =>
              /\ cmd \in 1..Len(Commands)
              /\ PrefixOf(Commands[cmd].Path, args)
              /\ \A k \in 1..Len(Commands) :
                    PrefixOf(Commands[k].Path, args)
                        => Len(Commands[k].Path) <= Len(Commands[cmd].Path)
        /\ \A cmds \in Reorderings(Commands) :
              ChosenCommand(cmds, args) = ChosenCommand(Commands, args)

\* C2: a command is matched only when its path is a prefix of the input
\* from index 0; when none is, the result has no command and every token
\* is scanned; when one is, its path tokens are not positional arguments.
C2_CommandOnlyAtIndexZero ==
    Succeeded =>
        LET r == ret.result[1]
        IN  /\ r.Command /= 0 => PrefixOf(Commands[r.Command].Path, args)
            /\ (\A k \in 1..Len(Commands) :
                   Commands[k].Path = <<>> \/ ~PrefixOf(Commands[k].Path, args))
                  => r.Command = 0

\* the index at which the scan loop of Parse starts
ScanStart == IF cmd = 0 THEN 0 ELSE Len(Commands[cmd].Path)

\* name is the name or an alias of flag
Named(flag, name) ==
    flag.Name = name \/ \E j \in 1..Len(flag.Aliases) : flag.Aliases[j] = name

\* name denotes a global flag or a flag of the matched command
InScope(name) ==
    \/ \E k \in 1..Len(Flags) : Named(Flags[k], name)
    \/ /\ cmd /= 0
       /\ \E k \in 1..Len(Commands[cmd].Flags) : Named(Commands[cmd].Flags[k], name)

IsLong(t) == HasPrefix(t, "--") /\ t /= "--"

IsShort(t) == HasPrefix(t, "-") /\ ~HasPrefix(t, "--") /\ Len(t) = 2

IsGroup(t) == HasPrefix(t, "-") /\ ~HasPrefix(t, "--") /\ Len(t) > 2

HasEq(t) == \E k \in 1..Len(t) : SubSeq(t, k, k) = "="

\* the text of s before its first "=", all of s when it has none
BeforeEq(s) ==
    IF HasEq(s)
    THEN CHOOSE x \in {SubSeq(s, 1, k) : k \in 0..Len(s)} :
             ~HasEq(x) /\ HasPrefix(s, x \o "=")
    ELSE s

\* the text of s after its first "="
AfterEq(s) == SubSeq(s, Len(BeforeEq(s)) + 2, Len(s))

\* the flag name a long or single short flag token is written with
NameOf(t) == IF IsLong(t) THEN BeforeEq(SubSeq(t, 3, Len(t))) ELSE SubSeq(t, 2, Len(t))

\* the flag a name in scope resolves to
Resolved(name) == findFlag(Parser, name, cmd)[1]

\* the token the scan loop looks at
CurArg == args[i + 1]

\* the step fails and Parse returns only the error e
FailsWith(e) == pc' = "done" /\ ret' = [result |-> <<>>, err |-> e]

\* in a group, every character before the k-th resolves to a Bool flag
GroupReaches(chars, k) ==
    \A j \in 0..(k - 1) :
        InScope(Byte(chars, j)) /\ Resolved(Byte(chars, j)).Type = BoolType

C3_Step ==
    ScanFlag =>
        IF IsGroup(CurArg)
        THEN LET chars == SubSeq(CurArg, 2, Len(CurArg))
             IN  \A k \in 0..(Len(chars) - 1) :
                    GroupReaches(chars, k) =>
                        (~InScope(Byte(chars, k))
                            <=> FailsWith(errorUnknownFlag(Byte(chars, k))))
        ELSE ~InScope(NameOf(CurArg))
                <=> FailsWith(errorUnknownFlag(NameOf(CurArg)))

\* C3: a flag name the scan resolves is found iff it is the name or an
\* alias of a global flag or of a flag of the matched command; any other
\* name, a flag of another command included, makes Parse fail with
\* UnknownFlag for that name.
C3_UnknownFlagIffOutOfScope == [][C3_Step]_vars

\* Parse failed on a name that only a command that did not match declares
C3_Witness ==
    /\ Failed
    /\ cmd /= 0
    /\ ret.err.Err = ErrUnknownFlag
    /\ \E k \in 1..Len(Commands) :
          /\ k /= cmd
          /\ \E j \in 1..Len(Commands[k].Flags) :
                Named(Commands[k].Flags[j], ret.err.Flag)

\* Parse of the generation that runs
ParseOf(p, a) ==
    CASE impl = "paws" -> Parse(p, a)
      [] impl = "apawse" -> apawse_Parse(p, a)
      [] impl = "parser" -> parser_Parse(p, a)

HasMarker == \E k \in 1..Len(args) : args[k] = "--"

\* the index of the first "--" of the input (1-based)
FirstMarker ==
    CHOOSE k \in 1..Len(args) :
        args[k] = "--" /\ \A j \in 1..(k - 1) : args[j] /= "--"

IsSuffix(suffix, seq) ==
    /\ Len(suffix) <= Len(seq)
    /\ SubSeq(seq, Len(seq) - Len(suffix) + 1, Len(seq)) = suffix

\* C4: once "--" is met every later token, a further "--" included, is a
\* positional argument in input order, and the flags are those parsed from
\* the tokens before the "--".
C4_AfterDoubleDashAllPositional ==
    (Succeeded /\ HasMarker) =>
        LET before == SubSeq(args, 1, FirstMarker - 1)
            later == SubSeq(args, FirstMarker + 1, Len(args))
            r == ret.result[1]
        IN  /\ IsSuffix(later, r.Positional)
            /\ ParseOf(Parser, before).err = NoError
            /\ r.Flags = ParseOf(Parser, before).result[1].Flags

\* C5: DoubleDash is true iff a "--" token lies at or after the index where
\* the scan starts; Parse(["--"]) succeeds with DoubleDash and no positional
\* argument.
C5_DoubleDashIffMarkerScanned ==
    /\ Succeeded =>
          (ret.result[1].DoubleDash
              <=> \E k \in (ScanStart + 1)..Len(args) : args[k] = "--")
    /\ (Done /\ args = <<"--">>) =>
          /\ Succeeded
          /\ ret.result[1].DoubleDash
          /\ ret.result[1].Positional = <<>>

\* a "--" was met after a flag had been set
C5_Witness ==
    /\ Succeeded
    /\ ret.result[1].DoubleDash
    /\ ret.result[1].Flags /= EmptyMap
    /\ args[Len(args)] = "--"

\* the first token the scan loop meets, when there is one
FirstScanned == args[ScanStart + 1]

\* the input with its first scanned token "--name=value" given as the two
\* tokens "--name", "value"
SplitAtEq ==
    SubSeq(args, 1, ScanStart)
        \o <<"--" \o NameOf(FirstScanned),
             AfterEq(SubSeq(FirstScanned, 3, Len(FirstScanned)))>>
        \o SubSeq(args, ScanStart + 2, Len(args))

\* two outcomes of Parse are the same error, or two results that store
\* the same value, or none, under name
SameStored(r1, r2, name) ==
    /\ r1.err = r2.err
    /\ r1.err = NoError =>
          /\ name \in DOMAIN r1.result[1].Flags <=> name \in DOMAIN r2.result[1].Flags
          /\ name \in DOMAIN r1.result[1].Flags =>
                r1.result[1].Flags[name] = r2.result[1].Flags[name]

\* C6: for a non-Bool flag f and a value v, parsing "--f=v" and parsing
\* "--f", "v" give the same outcome and the same stored value of f.
C6_EqualsFormSameAsNextToken ==
    (/\ Done
     /\ ScanStart < Len(args)
     /\ IsLong(FirstScanned)
     /\ HasEq(FirstScanned)
     /\ InScope(NameOf(FirstScanned))
     /\ Resolved(NameOf(FirstScanned)).Type /= BoolType)
        => SameStored(ret, ParseOf(Parser, SplitAtEq),
                      Resolved(NameOf(FirstScanned)).Name)

C7_Step ==
    (ApawseScanFlag /\ IsLong(CurArg) /\ HasEq(CurArg)) =>
        LET name == BeforeEq(SubSeq(CurArg, 3, Len(CurArg)))
            value == AfterEq(SubSeq(CurArg, 3, Len(CurArg)))
        IN  IF InScope(name)
            THEN /\ pc' = "scan"
                 /\ i' = i + 1
                 /\ result'.Flags = MapSet(result.Flags, Resolved(name).Name, value)
                 /\ positional' = positional
            ELSE FailsWith(errorUnknownFlag(name))

\* C7: a long token with "=" names the flag by the text before the first
\* "=" and gives it exactly the text after it, empty or holding further
\* "=" included; one token is consumed and the next is scanned on its own.
C7_EqualsSplitsAtFirstEq == [][C7_Step]_vars

\* "--file=" stored the empty value and left the next token to the scan
C7_Witness ==
    /\ Succeeded
    /\ Len(args) >= 2
    /\ args[1] = "--file="
    /\ args[2] = "5"
    /\ ret.result[1].Flags = MapSet(EmptyMap, "file", "")
    /\ ret.result[1].Positional = SubSeq(args, 2, Len(args))

\* the characters of a group token
GroupChars(t) == SubSeq(t, 2, Len(t))

GroupAllBool(t) ==
    \A k \in 0..(Len(GroupChars(t)) - 1) :
        /\ InScope(Byte(GroupChars(t), k))
        /\ Resolved(Byte(GroupChars(t), k)).Type = BoolType

GroupNames(t) ==
    {Resolved(Byte(GroupChars(t), k)).Name : k \in 0..(Len(GroupChars(t)) - 1)}

C8_Step ==
    (ScanFlag /\ IsGroup(CurArg)) =>
        IF GroupAllBool(CurArg)
        THEN /\ pc' = "scan"
             /\ i' = i + 1
             /\ positional' = positional
             /\ result'.Flags =
                   [n \in DOMAIN result.Flags \cup GroupNames(CurArg) |->
                       IF n \in GroupNames(CurArg) THEN "true"
                       ELSE result.Flags[n]]
        ELSE /\ pc' = "done"
             /\ ret'.err /= NoError
             /\ ret'.result = <<>>

\* C8: a group of short flags succeeds iff every character resolves to a
\* Bool flag; then each is set to true and one token is consumed; else
\* Parse fails and returns no result, so no flag of the group shows as set.
C8_GroupAllOrNothing == [][C8_Step]_vars

\* a group with a command flag succeeded
C8_Witness ==
    /\ Succeeded
    /\ \E k \in 1..Len(args) : args[k] = "-vq"
    /\ {"verbose", "quiet"} \subseteq DOMAIN ret.result[1].Flags
    /\ ret.result[1].Flags["quiet"] = "true"

\* a Bool flag token without "=" whose next token does not start with "-"
BoolFlagBeforeWord ==
    /\ IsLong(CurArg) \/ IsShort(CurArg)
    /\ ~HasEq(CurArg)
    /\ InScope(NameOf(CurArg))
    /\ Resolved(NameOf(CurArg)).Type = BoolType
    /\ i + 1 < Len(args)
    /\ ~HasPrefix(args[i + 2], "-")

C9_Step ==
    (ScanFlag /\ BoolFlagBeforeWord) =>
        /\ pc' = "scan"
        /\ positional' = positional
        /\ IF isValidBoolValue(args[i + 2])
           THEN /\ i' = i + 2
                /\ result'.Flags =
                      MapSet(result.Flags, Resolved(NameOf(CurArg)).Name, args[i + 2])
           ELSE /\ i' = i + 1
                /\ result'.Flags =
                      MapSet(result.Flags, Resolved(NameOf(CurArg)).Name, "true")

\* C9: a Bool flag without "=" followed by a token that does not start
\* with "-" takes that token as its value iff it is a boolean literal; else
\* Parse goes on, the flag is true and the token is left to the scan.
C9_BoolTakesOnlyLiterals == [][C9_Step]_vars

\* a non-Bool flag token without "="
ValueFlagToken ==
    /\ IsLong(CurArg) \/ IsShort(CurArg)
    /\ ~HasEq(CurArg)
    /\ InScope(NameOf(CurArg))
    /\ Resolved(NameOf(CurArg)).Type /= BoolType

C10_Step ==
    (ScanFlag /\ ValueFlagToken) =>
        LET f == Resolved(NameOf(CurArg))
        IN  IF i + 1 >= Len(args) \/ HasPrefix(args[i + 2], "-")
            THEN FailsWith(errorMissingValue(NameOf(CurArg)))
            ELSE IF validateFlagValue(f, args[i + 2]) /= ""
            THEN FailsWith(ParseError(ErrFlagValue, f.Name, args[i + 2],
                                      validateFlagValue(f, args[i + 2])))
            ELSE /\ pc' = "scan"
                 /\ i' = i + 2
                 /\ positional' = positional
                 /\ result'.Flags = MapSet(result.Flags, f.Name, args[i + 2])

\* C10: a non-Bool flag without "=" that is the last token, or whose next
\* token starts with "-", makes Parse fail with MissingValue for that flag
\* and return no result; otherwise the next token is taken as the value,
\* two tokens are consumed and the value is no positional argument.
C10_ValueFlagNeedsNextToken == [][C10_Step]_vars

\* MissingValue for a flag followed by a token that starts with "-"
C10_Witness ==
    /\ Failed
    /\ ret.err.Err = ErrMissingValue
    /\ i + 1 < Len(args)
    /\ ret.err.Flag = NameOf(args[i + 1])
    /\ HasPrefix(args[i + 2], "-")

(* the validator *)
Validated == impl = "validate" /\ pc = "done"

RangeConfigured(f) == f.Min /= 0 \/ f.Max /= 0

\* v spells the natural number n in base 10, leading zeros allowed
SpellsNat(v, n) == \E zeros \in {"", "0", "00"} : v = zeros \o NatText(n)

\* v spells the integer n in base 10, with an optional sign
SpellsInt(v, n) ==
    \/ n >= 0 /\ \E sign \in {"", "+"}, zeros \in {"", "0", "00"} :
                     v = sign \o zeros \o NatText(n)
    \/ n <= 0 /\ \E zeros \in {"", "0", "00"} : v = "-" \o zeros \o NatText(0 - n)

\* every integer a candidate text of the model can spell
Spellable == (0 - MaxNum - 1)..(MaxNum + 1)

\* the rejection of value v for flag f: InvalidFlagValue naming f, f not set
RejectedFor(f, v) ==
    /\ assigned[1].err.typed
    /\ assigned[1].err.Err = ErrFlagValue
    /\ assigned[1].err.Flag = f.Name
    /\ assigned[1].Flags = result.Flags

AcceptedFor(f, v) ==
    /\ assigned[1].err = NoError
    /\ assigned[1].Flags = MapSet(result.Flags, f.Name, v)

\* C11: for an Int flag with a range [min,max], not both zero, a value is
\* accepted iff it is a base-10 signed integer v with min <= v <= max; any
\* other value fails with InvalidFlagValue naming the flag, which is not set.
C11_IntRangeInclusive ==
    (/\ Validated
     /\ candidate.flag.Type = IntType
     /\ RangeConfigured(candidate.flag))
        => IF \E n \in Spellable :
                 /\ SpellsInt(candidate.value, n)
                 /\ candidate.flag.Min <= n
                 /\ n <= candidate.flag.Max
           THEN AcceptedFor(candidate.flag, candidate.value)
           ELSE RejectedFor(candidate.flag, candidate.value)

\* with range [1,10], the value 10 was accepted
C11_Witness ==
    /\ Validated
    /\ candidate.flag.Type = IntType
    /\ candidate.flag.Min = 1
    /\ candidate.flag.Max = 10
    /\ candidate.value = "10"
    /\ assigned[1].err = NoError

\* C12: for a Uint flag with a range [min,max], not both zero, a value is
\* accepted iff it is a base-10 unsigned integer v with max(0,min) <= v <= max;
\* no value is accepted when max is negative.
C12_UintRangeClamped ==
    (/\ Validated
     /\ candidate.flag.Type = UintType
     /\ RangeConfigured(candidate.flag))
        => IF \E n \in Spellable :
                 /\ n >= 0
                 /\ SpellsNat(candidate.value, n)
                 /\ candidate.flag.Min <= n
                 /\ n <= candidate.flag.Max
           THEN AcceptedFor(candidate.flag, candidate.value)
           ELSE RejectedFor(candidate.flag, candidate.value)

UpperCase == "ABCDEFGHIJKLMNOPQRSTUVWXYZ"

LowerCase == "abcdefghijklmnopqrstuvwxyz"

LowerByte(c) ==
    IF IndexByte(UpperCase, c) /= -1 THEN Byte(LowerCase, IndexByte(UpperCase, c))
    ELSE c

RECURSIVE Lower(_)
Lower(s) == IF s = "" THEN "" ELSE LowerByte(Byte(s, 0)) \o Lower(SubSeq(s, 2, Len(s)))

TrueLiterals == {"t", "y", "1", "yes", "true"}

FalseLiterals == {"f", "n", "0", "no", "false"}

\* C13: the boolean-literal validator accepts a string iff, whatever its
\* case, it is one of t, f, y, n, 1, 0, yes, no, true, false.
C13_BoolLiteralsOnly ==
    (Validated /\ candidate.flag.Type = BoolType)
        => (assigned[1].err = NoError
               <=> Lower(candidate.value) \in TrueLiterals \cup FalseLiterals)

\* a literal in mixed case was accepted
C13_Witness ==
    /\ Validated
    /\ candidate.flag.Type = BoolType
    /\ candidate.value = "yEs"
    /\ assigned[1].err = NoError

\* the numeric parse of the candidate succeeds
NumericParses(f, v) ==
    IF f.Type = IntType THEN \E n \in Spellable : SpellsInt(v, n)
    ELSE \E n \in Spellable : n >= 0 /\ SpellsNat(v, n)

\* C15: a rejection is an InvalidFlagValue error with the canonical name of
\* the flag and the raw value; it has a cause when the numeric parse failed
\* and none when the value parsed but failed a range or choice check.
C15_CauseOnlyOnParseFailure ==
    (Validated /\ assigned[1].err /= NoError)
        => /\ assigned[1].err.typed
           /\ assigned[1].err.Err = ErrFlagValue
           /\ assigned[1].err.Flag = candidate.flag.Name
           /\ assigned[1].err.Value = candidate.value
           /\ candidate.flag.Type \in {IntType, UintType} =>
                 (assigned[1].err.Cause /= ""
                     <=> ~NumericParses(candidate.flag, candidate.value))
           /\ candidate.flag.Type = StringType => assigned[1].err.Cause = ""

(* the calls on a result *)
\* the last call on the result was call
LastCall(call) == out /= <<>> /\ out[1].call = call

\* the flags in scope of the result: the global ones, then the command's
ScopeFlags == IF cmd /= 0 THEN Flags \o Commands[cmd].Flags ELSE Flags

IsBoolLiteral(text) == Lower(text) \in TrueLiterals \cup FalseLiterals

\* C14: for a Bool flag whose stored value is a valid boolean literal,
\* Bool(name) is true exactly when the literal is, whatever its case, one of
\* t, y, 1, yes, true, and false when it is one of f, n, 0, no, false.
C14_BoolReadsLiteral ==
    (/\ LastCall("Bool")
     /\ out[1].name \in DOMAIN result.Flags
     /\ InScope(out[1].name)
     /\ Resolved(out[1].name).Type = BoolType
     /\ IsBoolLiteral(result.Flags[out[1].name]))
        => out[1].val = AnyBool(Lower(result.Flags[out[1].name]) \in TrueLiterals)

\* the first flag in scope whose name is n: <<flag>>, or <<>>
RegisteredNamed(n) ==
    IF \E k \in 1..Len(ScopeFlags) : ScopeFlags[k].Name = n
    THEN <<ScopeFlags[CHOOSE k \in 1..Len(ScopeFlags) :
                         /\ ScopeFlags[k].Name = n
                         /\ \A j \in 1..(k - 1) : ScopeFlags[j].Name /= n]>>
    ELSE <<>>

\* the stored text can be read as a value of the accessor's type
Coercible(call, text) ==
    CASE call = "Bool" -> IsBoolLiteral(text)
      [] call = "String" -> TRUE
      [] call = "Int" -> Atoi(text).ok
      [] call = "Uint" -> ParseUint(text).ok

Coerced(call, text) ==
    CASE call = "Bool" -> AnyBool(Lower(text) \in TrueLiterals)
      [] call = "String" -> AnyString(text)
      [] call = "Int" -> AnyInt(Atoi(text).val)
      [] call = "Uint" -> AnyUint(ParseUint(text).val)

\* the default of flag f has the type the accessor returns
HasDefaultFor(call, f) ==
    CASE call = "Bool" -> f.DefValue.type = "bool"
      [] call = "String" -> f.DefValue.type = "string"
      [] call = "Int" -> f.DefValue.type = "int"
      [] call = "Uint" -> \/ f.DefValue.type = "uint"
                          \/ f.DefValue.type = "int" /\ f.DefValue.n >= 0

DefaultFor(call, f) ==
    CASE call = "Bool" -> AnyBool(f.DefValue.b)
      [] call = "String" -> AnyString(f.DefValue.s)
      [] call = "Int" -> AnyInt(f.DefValue.n)
      [] call = "Uint" -> AnyUint(f.DefValue.n)

ZeroFor(call) ==
    CASE call = "Bool" -> AnyBool(FALSE)
      [] call = "String" -> AnyString("")
      [] call = "Int" -> AnyInt(0)
      [] call = "Uint" -> AnyUint(0)

\* C16: an accessor returns the coerced value of a name present in the
\* result; else the default of the flag of that name registered globally or
\* for the matched command, when it has the accessor's type; else the zero
\* value of the type. It never fails.
C16_AccessorFallsBack ==
    (out /= <<>> /\ out[1].call \in {"Bool", "String", "Int", "Uint"})
        => /\ out[1].err = NoError
           /\ IF out[1].name \in DOMAIN result.Flags
              THEN Coercible(out[1].call, result.Flags[out[1].name])
                      => out[1].val = Coerced(out[1].call, result.Flags[out[1].name])
              ELSE IF /\ RegisteredNamed(out[1].name) /= <<>>
                      /\ HasDefaultFor(out[1].call, RegisteredNamed(out[1].name)[1])
              THEN out[1].val = DefaultFor(out[1].call, RegisteredNamed(out[1].name)[1])
              ELSE out[1].val = ZeroFor(out[1].call)

\* the flag at index k of the scope is required, not Bool, and the result
\* holds no non-empty value for it
Lacking(k) ==
    /\ ScopeFlags[k].IsRequired
    /\ ScopeFlags[k].Type /= BoolType
    /\ ~(/\ ScopeFlags[k].Name \in DOMAIN result.Flags
         /\ result.Flags[ScopeFlags[k].Name] /= "")

\* the parser with no flag marked required
Unrequired(p) ==
    [Flags |-> [k \in 1..Len(p.Flags) |-> [p.Flags[k] EXCEPT !.IsRequired = FALSE]],
     Commands |->
         [c \in 1..Len(p.Commands) |->
             [p.Commands[c] EXCEPT
                 !.Flags = [k \in 1..Len(p.Commands[c].Flags) |->
                               [p.Commands[c].Flags[k] EXCEPT !.IsRequired = FALSE]]]]]

\* C17: ValidateRequired returns nil iff every required non-Bool flag, global
\* or of the matched command, has a non-empty value; else RequiredFlagMissing
\* names the first such flag, global flags first. Required Bool flags cause
\* no error, and Parse does not depend on what is required.
C17_RequiredNonBoolFirstMissing ==
    /\ LastCall("ValidateRequired") =>
          /\ out[1].err = NoError <=> \A k \in 1..Len(ScopeFlags) : ~Lacking(k)
          /\ \A k \in 1..Len(ScopeFlags) :
                (Lacking(k) /\ \A j \in 1..(k - 1) : ~Lacking(j))
                    => out[1].err = ParseError(ErrRequiredFlag, ScopeFlags[k].Name, "", "")
    /\ (impl = "paws" /\ pc = "done") => ret = Parse(Unrequired(Parser), args)

\* a command flag is reported while a required Bool flag is absent and the
\* required global flag has its value
C17_Witness ==
    /\ LastCall("ValidateRequired")
    /\ out[1].err = errorRequiredFlag("level")
    /\ "verbose" \notin DOMAIN result.Flags
    /\ "target" \in DOMAIN result.Flags

\* the inputs that keep the first n tokens of args and go on in any way
Extensions(n) ==
    {SubSeq(args, 1, n) \o rest :
        rest \in UNION {[1..m -> StopTokens] : m \in 0..(MaxStopArgs - n)}}

\* C18 as stated: when Parse fails it returns no result, the tokens before
\* the failing one parse without error, and no token to the right of the
\* failing token influences the outcome.
C18_NothingRightOfFailingToken ==
    Failed =>
        /\ ret.result = <<>>
        /\ ParseOf(Parser, SubSeq(args, 1, i)).err = NoError
        /\ i + 1 < Len(args) =>
              \A a2 \in Extensions(i + 1) : ParseOf(Parser, a2) = ret

\* C18, amended: when Parse fails it returns no result, the tokens before
\* the failing one parse without error, and no token to the right of the
\* token that follows the failing one influences the outcome.
C18_NothingRightOfLookahead ==
    Failed =>
        /\ ret.result = <<>>
        /\ ParseOf(Parser, SubSeq(args, 1, i)).err = NoError
        /\ i + 1 < Len(args) =>
              \A a2 \in Extensions(i + 2) : ParseOf(Parser, a2) = ret

\* a value flag failed on the token after it, with a further token behind
C18_Witness ==
    /\ Failed
    /\ ret.err.Err = ErrMissingValue
    /\ i + 2 < Len(args)
    /\ HasPrefix(args[i + 2], "-")

\* the kinds of error errors.go declares
DeclaredKinds ==
    {ErrUnknownFlag, ErrFlagValue, ErrMissingValue, ErrRequiredFlag, ErrParse}

\* C19: every error Parse returns is a structured ParseError of a declared
\* kind; a group of short flags with a non-Bool member yields such an error,
\* told apart by its kind, not an untyped error.
C19_EveryErrorIsStructured ==
    Failed => ret.err.typed /\ ret.err.Err \in DeclaredKinds

\* C20: a Parse call writes neither the parser nor any input, and whatever
\* the interleaving a call that returns gives what the same call gives alone.
C20_Step ==
    /\ Commands' = Commands
    /\ Flags' = Flags
    /\ \A c \in 1..NumCalls : calls'[c].args = calls[c].args
    /\ \A c \in 1..NumCalls :
          calls'[c].pc = "done" =>
              calls'[c].ret = parser_Parse(Parser, calls[c].args)

C20_ParseWritesNothingShared == [][C20_Step]_vars

\* one call has returned a result that holds a flag while the other, which
\* matched a command, is still before the end of its scan
C20_Witness ==
    /\ pc = "concurrent"
    /\ calls[1].pc = "done"
    /\ calls[1].ret.err = NoError
    /\ calls[1].ret.result[1].Flags /= EmptyMap
    /\ calls[2].pc = "scan"
    /\ calls[2].L.cmd /= 0
    /\ calls[2].L.i < Len(calls[2].args)

(* termination *)
C21_Step ==
    (Scanning("paws") /\ Next) =>
        \/ FailsWith(ret'.err) /\ ret'.err /= NoError /\ i' = i
        \/ /\ pc' = "scan"
           /\ i' \in {i + 1, i + 2}
           /\ i' <= Len(args)
           /\ (CurArg = "--" \/ inPositional \/ ~HasPrefix(CurArg, "-")
                  \/ IsGroup(CurArg)) => i' = i + 1
           /\ i' = i + 2 =>
                 /\ InScope(NameOf(CurArg))
                 /\ result'.Flags =
                       MapSet(result.Flags, Resolved(NameOf(CurArg)).Name,
                              args[i + 2])

\* C21: Parse terminates: every iteration of the scan loop returns an error
\* or moves the scan index on, by one token for "--", a positional argument
\* or a group, by one or two for a flag, two only when the next token is
\* stored as its value; so Parse returns in the end.
C21_ParseTerminates == [][C21_Step]_vars /\ <>Done

\* Parse returned a result after a step of two tokens and a step of one
C21_Witness ==
    /\ Succeeded
    /\ i = Len(args)
    /\ Len(args) = 3
    /\ "file" \in DOMAIN ret.result[1].Flags
    /\ ret.result[1].Flags["file"] = args[2]

(* the setup phase *)
\* C22: after any sequence of AddCommand calls every registered command
\* has a non-empty path and no two registered commands have the same path.
C22_PathsNonEmptyAndDistinct ==
    pc = "setup" =>
        /\ \A k \in 1..Len(Commands) : Commands[k].Path /= <<>>
        /\ \A j, k \in 1..Len(Commands) :
              Commands[j].Path = Commands[k].Path => j = k

(* the builder *)
IsNumeric(t) == t \in {IntType, UintType, FloatType}

\* the flag has choices only if it is a String flag, a range only if numeric
TypedOptions(f) ==
    /\ f.ChoicesOpt /= <<>> => f.Type = StringType
    /\ (f.Min /= 0 \/ f.Max /= 0) => IsNumeric(f.Type)

Panicked == out /= <<>> /\ out[1].val = AnyBool(TRUE)

C23_Step ==
    /\ CallChoices => (out'[1].val = AnyBool(built[1].Type /= StringType))
    /\ CallRange => (out'[1].val = AnyBool(~IsNumeric(built[1].Type)))
    /\ (CallChoices \/ CallRange) =>
          (out'[1].val = AnyBool(TRUE) =>
              /\ built'[1].ChoicesOpt = built[1].ChoicesOpt
              /\ built'[1].Min = built[1].Min
              /\ built'[1].Max = built[1].Max)

\* C23: a flag built through Paw and builder calls has choices only if its
\* type is String and a range only if its type is Int, Uint or Float; Choices
\* on another type and Range on a non-numeric type panic and leave the
\* choices, Min and Max as they were.
C23_ChoicesAndRangeByType ==
    [](impl = "flags" => TypedOptions(built[1])) /\ [][C23_Step]_vars

\* Range panicked on a String flag that has its choices
C23_Witness ==
    /\ impl = "flags"
    /\ out /= <<>>
    /\ out[1].call = "Range"
    /\ Panicked
    /\ built[1].Type = StringType
    /\ built[1].ChoicesOpt = <<"fast", "slow">>

(* the positional arguments *)
\* the number of tokens the flag token at index k takes: itself and, when
\* the generation that runs stores the next token as its value, that token
TokensTaken(k) ==
    CASE impl = "paws" ->
             parseFlag(Parser, args[k + 1], args, k, cmd, EmptyMap).consumed
      [] impl = "apawse" ->
             apawse_parseFlag(Parser, args[k + 1], args, k, cmd, EmptyMap).consumed
      [] impl = "parser" ->
             parser_parseFlag(Parser, args[k + 1], args, k, cmd, EmptyMap).consumed + 1

\* the tokens from index k on that are no flag token, no value of a flag
\* and not the "--" marker, in input order; marked says the marker was met
RECURSIVE Leftover(_, _)
Leftover(k, marked) ==
    IF k >= Len(args) THEN <<>>
    ELSE IF marked THEN <<args[k + 1]>> \o Leftover(k + 1, TRUE)
    ELSE IF args[k + 1] = "--" THEN Leftover(k + 1, TRUE)
    ELSE IF HasPrefix(args[k + 1], "-") THEN Leftover(k + TokensTaken(k), FALSE)
    ELSE <<args[k + 1]>> \o Leftover(k + 1, FALSE)

\* C24: on success result.Positional is exactly the sequence, in input
\* order, of the tokens after the matched command path that were not
\* consumed as a flag token, as the value of a flag or as the "--" marker.
\* Inputs with a second "--" are left aside: what becomes of it is C4.
C24_PositionalIsWhatIsLeft ==
    (Succeeded /\ Cardinality({k \in 1..Len(args) : args[k] = "--"}) <= 1)
        => ret.result[1].Positional = Leftover(ScanStart, FALSE)

(* the round trip of a numeric value *)
\* the integer a text of an optional sign and digits denotes
Denotes(text) ==
    IF Len(text) > 0 /\ Byte(text, 0) = "-"
    THEN 0 - DecimalValue(SubSeq(text, 2, Len(text)))
    ELSE IF Len(text) > 0 /\ Byte(text, 0) = "+"
    THEN DecimalValue(SubSeq(text, 2, Len(text)))
    ELSE DecimalValue(text)

\* the accessor of the flag's own type read the value Parse stored for it
ReadBack(call, t) ==
    /\ LastCall(call)
    /\ out[1].name \in DOMAIN result.Flags
    /\ InScope(out[1].name)
    /\ Resolved(out[1].name).Type = t
    /\ Resolved(out[1].name).Name = out[1].name

\* C25: a value string the validator accepted for an Int or Uint flag and
\* Parse stored is read back by Int or Uint as exactly the integer the
\* string denotes, with no loss and no wrap-around.
C25_NumericRoundTrip ==
    /\ ReadBack("Int", IntType) =>
          out[1].val = AnyInt(Denotes(result.Flags[out[1].name]))
    /\ ReadBack("Uint", UintType) =>
          out[1].val = AnyUint(Denotes(result.Flags[out[1].name]))

\* the largest uint came back as it went in
C25_Witness ==
    /\ ReadBack("Uint", UintType)
    /\ result.Flags[out[1].name] = "255"
    /\ out[1].val = AnyUint(255)

(* colliding global flags *)
\* the first-registered global flag that has name as its name or an alias
FirstRegistered(name) ==
    Flags[CHOOSE k \in 1..Len(Flags) :
              /\ Named(Flags[k], name)
              /\ \A j \in 1..(k - 1) : ~Named(Flags[j], name)]

IsGlobal(name) == \E k \in 1..Len(Flags) : Named(Flags[k], name)

\* C26: when global flags collide on a name or an alias the first
\* registered one wins everywhere: a flag token is stored under the name of
\* the first-registered flag it denotes, and an accessor that falls back to
\* a default takes the default of the first-registered flag of that name.
C26_FirstRegisteredWinsEverywhere ==
    /\ (/\ Succeeded
        /\ Len(args) = 1
        /\ IsLong(args[1])
        /\ IsGlobal(NameOf(args[1])))
          => DOMAIN ret.result[1].Flags = {FirstRegistered(NameOf(args[1])).Name}
    /\ (/\ out /= <<>>
        /\ out[1].call \in {"Bool", "String", "Int", "Uint"}
        /\ out[1].name \notin DOMAIN result.Flags
        /\ IsGlobal(out[1].name)
        /\ HasDefaultFor(out[1].call, FirstRegistered(out[1].name)))
          => out[1].val = DefaultFor(out[1].call, FirstRegistered(out[1].name))

(* the text of an error *)
\* C27: Error renders "paws: <kind>: <flag>" when only the kind and the
\* flag are set, "paws: <kind>: <flag> with value <value>" when a value is
\* set and no cause, "paws: <kind>: <flag> (<cause>)" whenever a cause is
\* set; Unwrap returns the kind.
C27_ErrorText ==
    /\ LastCall("Error") =>
          out[1].val =
              AnyString("paws: " \o ret.err.Err \o ": " \o ret.err.Flag \o
                  (IF ret.err.Cause /= "" THEN " (" \o ret.err.Cause \o ")"
                   ELSE IF ret.err.Value /= ""
                   THEN " with value " \o ret.err.Value
                   ELSE ""))
    /\ LastCall("Unwrap") => out[1].val = AnyString(ret.err.Err)

(* the token "-" *)
\* C28: the scan of a token that is exactly "-" appends it to the
\* positional arguments, in positional mode and outside it, moves on by
\* one token and does not make Parse fail.
C28_Step ==
    (pc = "scan" /\ i < Len(args) /\ args[i + 1] = "-") =>
        /\ positional' = Append(positional, "-")
        /\ i' = i + 1
        /\ pc' = "scan"

C28_LoneDashIsPositional == [][C28_Step]_vars

(* the keys of result.Flags *)
\* a token with its short flag spelled by the canonical name
Long(t) ==
    CASE t = "-v" -> "--verbose"
      [] t = "-f" -> "--file"
      [] OTHER -> t

Longs(a) == [k \in 1..Len(a) |-> Long(a[k])]

\* the Name of every registered flag
CanonicalNames ==
    {Flags[k].Name : k \in 1..Len(Flags)} \cup
    UNION {{Commands[c].Flags[k].Name : k \in 1..Len(Commands[c].Flags)} :
              c \in 1..Len(Commands)}

\* C29: every key of result.Flags is the canonical Name of a flag, and an
\* input gives the same result.Flags and the same accessor values whether
\* it spells a flag by its alias (-v, -f) or by its Name (--verbose,
\* --file).
C29_KeysAreCanonicalNames ==
    /\ (impl = "paws" /\ pc = "scan") =>
          DOMAIN result.Flags \subseteq CanonicalNames
    /\ (impl = "paws" /\ pc = "done") =>
          LET other == Parse(Parser, Longs(args))
          IN  /\ (other.err = NoError) <=> (ret.err = NoError)
              /\ ret.err = NoError =>
                    /\ DOMAIN ret.result[1].Flags \subseteq CanonicalNames
                    /\ other.result[1].Flags = ret.result[1].Flags
                    /\ ParseResult_Bool(Parser, other.result[1], "verbose")
                          = ParseResult_Bool(Parser, ret.result[1], "verbose")
                    /\ ParseResult_String(Parser, other.result[1], "file")
                          = ParseResult_String(Parser, ret.result[1], "file")

\* a parse that succeeded on an input spelling -v and -f stored both flags
\* under their Names
C29_Witness ==
    /\ impl = "paws"
    /\ pc = "done"
    /\ ret.err = NoError
    /\ \E k \in 1..Len(args) : args[k] = "-v"
    /\ \E k \in 1..Len(args) : args[k] = "-f"
    /\ DOMAIN ret.result[1].Flags = {"verbose", "file"}

(* ValidateRequired and the parser's flag storage *)
\* the Names of the flags call c is to examine: the global flags, then the
\* flags of the command of its own result
OwnNames(c) ==
    LET own == IF calls[c].result.Command /= 0
               THEN Flags \o CommandFlagsOf(c)
               ELSE Flags
    IN  [k \in 1..Len(own) |-> own[k].Name]

ExaminesOwn(c) ==
    /\ Len(calls[c].examined) <= Len(OwnNames(c))
    /\ calls[c].examined = SubSeq(OwnNames(c), 1, Len(calls[c].examined))
    /\ (calls[c].pc = "done" /\ calls[c].err = NoError) =>
          calls[c].examined = OwnNames(c)

C30_Step == backing' = backing /\ Flags' = Flags

\* C30: ValidateRequired does not write the parser's flag storage: while
\* calls run concurrently on results of different commands, each examines
\* exactly the global flags followed by the flags of its own command, and
\* p.Flags and the memory behind it stay as they were.
C30_ValidateRequiredOnlyReads ==
    /\ [](impl = "required" => \A c \in 1..NumValidators : ExaminesOwn(c))
    /\ [][C30_Step]_vars

====
